---------------------------- MODULE Spec2Model ----------------------------
(***************************************************************************)
(* git-lineage: the symbol store (SQLite tables commits / files / symbols  *)
(* and the OpenSearch git-commits index), the Python symbol extractors,   *)
(* the per-file indexing loop and the FAISS retrieval layer.               *)
(*                                                                         *)
(* The specifications of this module:                                      *)
(*   Spec         the symbol store and its insert / query helpers          *)
(*   SpecCommits  the three commit upserts                                 *)
(*   SpecParse    the symbol extractors applied to one Python source file  *)
(*   SpecRun      one indexing run over a sequence of files                *)
(*   SpecIndex    generate_embeddings / build_faiss_index / query_index    *)
(*   SpecHandler  the requests of the Lambda handler                       *)
(*   SpecQuery    query_symbols_by_name                                    *)
(*   SpecAnswer   the answer engines                                       *)
(*   SpecFetch    the paginated fetch of commits and pull requests         *)
(*   SpecSearch   search_all on the OpenSearch indices                     *)
(*   SpecBlockEnd find_block_end                                           *)
(*   SpecRegex    parse_js_ts_with_regex                                   *)
(*   SpecContext  build_context on snapshots that exceed its limits        *)
(* Each leaves the variables of the others at their idle values.           *)
(***************************************************************************)
EXTENDS Integers, Sequences, FiniteSets, TLC

VARIABLES
    \* --- symbol store -------------------------------------------------
    commits,      \* table commits: sequence of rows, in rowid order
    files,        \* table files: sequence of rows [file_id, current_path]
    symbols,      \* table symbols: sequence of rows, in symbol_id order
    osCommits,    \* OpenSearch index git-commits: sequence of [id, doc]
    firstCall,    \* history: per store and hash, the fields of the first call
    returned,     \* history: per path, the ids insert_file has returned
    lastCall,     \* history: per store and hash, the fields of the latest call
    fileCalls,    \* history: per path, whether insert_file ran 0, 1 or more times
    insertLog,    \* history: the arguments of every completed insert_symbol
    \* --- symbol extraction ---------------------------------------------
    src,          \* the source file handed to an extractor
    extractor,    \* which extractor has run on it ("none" before)
    result,       \* the sequence of symbols the extractor returned
    raised,       \* whether the extractor raised to its caller
    \* --- one indexing run ---------------------------------------------
    run,          \* the files the crawl visits, in os.walk order
    head_sha,     \* the commit the symbols are recorded for
    lambdaPos,    \* process_repository: position of the next file (Len + 1 when done)
    parserPos,    \* parse_repository_from_url: position of the next file
    all_items,    \* parse_repository_from_url: the entities collected so far
    \* --- embeddings and the FAISS index (one category) ------------------
    data,         \* DATA_DIR/<name>.json: the payload list
    embFile,      \* EMBEDDINGS_DIR/<name>_embeddings.npy: absent, or its vectors
    indexFile,    \* EMBEDDINGS_DIR/<name>_index.faiss: absent, or its vectors
    ret,          \* what the last operation returned to its caller
    \* --- the Lambda handler --------------------------------------------
    REPO_CACHE,   \* per repo_url, the cached result of process_repository
    tmpDb,        \* /tmp/lineage_o_r.db: the tables of the file
    github,       \* what GitHub holds for the repository o/r
    processed,    \* the process requests that have opened the database
    completed,    \* history: the repo_urls of the process requests that succeeded
    response,     \* the response to the last request, with what the request met
    \* --- queries on the symbol store -------------------------------------
    name_pattern, \* the argument of the last query_symbols_by_name
    matched,      \* the rows it returned
    \* --- the answer engines ----------------------------------------------
    asked,        \* the last question: engine, completion response, outcome
    \* --- the paginated fetch ---------------------------------------------
    fetch,        \* one fetch of the history: the requests made, the list
    \* --- the OpenSearch query --------------------------------------------
    search,       \* the last search_all: the two responses, what it returned
    \* --- the pattern-based extractor ------------------------------------
    block,        \* one call of find_block_end: the lines, the start, the result
    js,           \* one call of parse_js_ts_with_regex: the content, the records
    \* --- the context of a question ---------------------------------------
    ctx           \* one call of build_context: the snapshot, the lines

storeVars == <<commits, files, symbols, osCommits, firstCall, lastCall, returned,
               fileCalls, insertLog>>

parseVars == <<src, extractor, result, raised>>

runVars == <<run, head_sha, lambdaPos, parserPos, all_items>>

indexVars == <<data, embFile, indexFile, ret>>

handlerVars == <<REPO_CACHE, tmpDb, github, processed, completed, response>>

queryVars == <<name_pattern, matched>>

textVars == <<block, js, ctx>>

vars == <<storeVars, parseVars, runVars, indexVars, handlerVars, queryVars, asked, fetch, search, textVars>>

-----------------------------------------------------------------------------
(* Generic helpers *)

Range(s) == {s[i] : i \in DOMAIN s}

CountIn(s, x) == Cardinality({i \in DOMAIN s : s[i] = x})

MaxOf(S) == IF S = {} THEN 0 ELSE CHOOSE m \in S : \A n \in S : n <= m

-----------------------------------------------------------------------------
(* Bounds and input domains *)

MaxSymbols == 2       \* rows the symbols table may hold
MaxDefs == 2          \* definitions in a generated source file
MaxDecorators == 2    \* decorators stacked above one definition
MaxBody == 3          \* simple statement lines in one body
MaxRunFiles == 3      \* files one indexing run visits
MaxItems == 2         \* items in a payload list
MaxTopK == 3          \* largest top_k a query asks for
MaxProcess == 2       \* process requests that reach the database
MaxRemote == 61       \* commits or pull requests the remote repository holds
MaxScore == 3         \* distinct relevance scores of the hits
MaxBraceChars == 5    \* characters of the content find_block_end scans
MaxJsLines == 3       \* lines of a JavaScript/TypeScript file
MaxCtxFiles == 11     \* files with symbols in a snapshot
MaxCtxNames == 11     \* functions, and classes, of one file of a snapshot
MaxCtxItems == 6      \* commits, and pull requests, of a snapshot
MaxCtxChars == 81     \* characters of a commit message or a PR title

Hashes == {"h1", "h2"}
Paths == {"a.py", "b.py"}
RunPaths == Paths \cup {"bad.py", "locked.py", "main.go"}
\* text order of the paths
PathRank ==
    [p \in RunPaths |->
        CASE p = "a.py" -> 1 [] p = "b.py" -> 2 [] p = "bad.py" -> 3
          [] p = "locked.py" -> 4 [] OTHER -> 5]
FileIds == 1 .. Cardinality(Paths)    \* ids a caller may pass to insert_symbol
Stores == {"sqlite", "opensearch"}
NoRow == [none |-> TRUE]

\* Text is a sequence of one-character strings; whitespace is " " and "\n".
Whitespace == {" ", "\n"}

\* An ISO-8601 text of the instant t (what the GitHub API sends, and what
\* datetime.isoformat() produces).
IsoText(t) == [iso |-> t]

\* The (author, email, message, date) arguments callers pass for a hash.
CommitFields ==
    { [author |-> "alice", email |-> "alice@x", message |-> <<"f", "i", "x">>, date |-> 1],
      [author |-> "bob",   email |-> "bob@x",   message |-> <<" ", "w", "i", "p", "\n">>, date |-> 2] }

\* The (kind, name, start_line, end_line) arguments callers pass; the last
\* one has a kind the symbols table rejects.
SymbolShapes ==
    { [kind |-> "function",  name |-> "f", start_line |-> 1, end_line |-> 3],
      [kind |-> "class",     name |-> "C", start_line |-> 2, end_line |-> 5],
      [kind |-> "interface", name |-> "I", start_line |-> 1, end_line |-> 1] }

-----------------------------------------------------------------------------
(* SQL statements of the store *)

\* str.strip(): drop leading and trailing whitespace.
RECURSIVE LStrip(_)
LStrip(s) == IF s # <<>> /\ Head(s) \in Whitespace THEN LStrip(Tail(s)) ELSE s

RECURSIVE RStrip(_)
RStrip(s) ==
    IF s # <<>> /\ s[Len(s)] \in Whitespace THEN RStrip(SubSeq(s, 1, Len(s) - 1)) ELSE s

Strip(s) == RStrip(LStrip(s))

CommitRow(sha, author_name, author_email, message, committed_at) ==
    [commit_sha |-> sha, author_name |-> author_name, author_email |-> author_email,
     message |-> message, committed_at |-> committed_at]

HasCommit(tbl, sha) == \E i \in DOMAIN tbl : tbl[i].commit_sha = sha

\* INSERT OR REPLACE: the later row wins (not what the code does).
InsertOrReplaceCommit(tbl, row) ==
    SelectSeq(tbl, LAMBDA r : r.commit_sha # row.commit_sha) \o <<row>>

\* INSERT OR IGNORE INTO commits ...  (commit_sha TEXT PRIMARY KEY)
InsertOrIgnoreCommit(tbl, row) ==
    IF HasCommit(tbl, row.commit_sha) THEN tbl ELSE Append(tbl, row)

HasPath(tbl, path) == \E i \in DOMAIN tbl : tbl[i].current_path = path

\* file_id INTEGER PRIMARY KEY AUTOINCREMENT
NextFileId(tbl) == MaxOf({tbl[i].file_id : i \in DOMAIN tbl}) + 1

\* A plain INSERT on a table without the UNIQUE constraint (not what the code does).
InsertFileAlways(tbl, path) ==
    Append(tbl, [file_id |-> NextFileId(tbl), current_path |-> path])

\* INSERT OR IGNORE INTO files (current_path) VALUES (?)   (current_path UNIQUE)
InsertOrIgnoreFile(tbl, path) ==
    IF HasPath(tbl, path) THEN tbl
    ELSE Append(tbl, [file_id |-> NextFileId(tbl), current_path |-> path])

\* SELECT file_id FROM files WHERE current_path = ?  ... fetchone()[0]
SelectFileId(tbl, path) ==
    LET i == CHOOSE i \in DOMAIN tbl :
                 /\ tbl[i].current_path = path
                 /\ \A j \in DOMAIN tbl : tbl[j].current_path = path => i <= j
    IN tbl[i].file_id

\* kind TEXT CHECK (kind IN ('function','class'))
KindCheck(kind) == kind \in {"function", "class"}

NextSymbolId(tbl) == MaxOf({tbl[i].symbol_id : i \in DOMAIN tbl}) + 1

SymbolRow(id, file_id, commit_sha, kind, name, start_line, end_line) ==
    [symbol_id |-> id, file_id |-> file_id, commit_sha |-> commit_sha, kind |-> kind,
     name |-> name, start_line |-> start_line, end_line |-> end_line]

SameSymbol(r, file_id, commit_sha, kind, name, start_line, end_line) ==
    /\ r.file_id = file_id /\ r.commit_sha = commit_sha /\ r.kind = kind
    /\ r.name = name /\ r.start_line = start_line /\ r.end_line = end_line

\* An insert that skips a row already present (not what the code does).
InsertSymbolDedup(tbl, file_id, commit_sha, kind, name, start_line, end_line) ==
    IF \E i \in DOMAIN tbl :
           SameSymbol(tbl[i], file_id, commit_sha, kind, name, start_line, end_line)
    THEN tbl
    ELSE Append(tbl, SymbolRow(NextSymbolId(tbl), file_id, commit_sha, kind, name,
                               start_line, end_line))

\* INSERT INTO symbols (file_id, commit_sha, kind, name, start_line, end_line)
InsertSymbolRow(tbl, file_id, commit_sha, kind, name, start_line, end_line) ==
    Append(tbl, SymbolRow(NextSymbolId(tbl), file_id, commit_sha, kind, name,
                          start_line, end_line))

\* FROM symbols s JOIN files f ON s.file_id = f.file_id, projected on
\* (f.current_path, s.kind, s.name, s.start_line, s.end_line); rowid order.
RECURSIVE JoinSymbolsFiles(_, _)
JoinSymbolsFiles(syms, fls) ==
    IF syms = <<>> THEN <<>>
    ELSE LET s == Head(syms)
             matches == SelectSeq(fls, LAMBDA f : f.file_id = s.file_id)
             out == [i \in DOMAIN matches |->
                        [current_path |-> matches[i].current_path, kind |-> s.kind,
                         name |-> s.name, start_line |-> s.start_line,
                         end_line |-> s.end_line]]
         IN out \o JoinSymbolsFiles(Tail(syms), fls)

\* Sort keys are tuples of integers compared lexicographically.
RECURSIVE LexLess(_, _)
LexLess(a, b) ==
    IF a = <<>> \/ b = <<>> THEN FALSE
    ELSE IF Head(a) # Head(b) THEN Head(a) < Head(b)
    ELSE LexLess(Tail(a), Tail(b))

\* Insertion of one [key, row] pair into a sequence sorted by key; rows whose
\* keys are equal keep their arrival order (SQL leaves the order of ties open).
RECURSIVE InsertSorted(_, _)
InsertSorted(sorted, pair) ==
    IF sorted = <<>> THEN <<pair>>
    ELSE IF LexLess(pair.key, Head(sorted).key) THEN <<pair>> \o sorted
    ELSE <<Head(sorted)>> \o InsertSorted(Tail(sorted), pair)

RECURSIVE SortPairs(_)
SortPairs(pairs) ==
    IF pairs = <<>> THEN <<>>
    ELSE InsertSorted(SortPairs(SubSeq(pairs, 1, Len(pairs) - 1)), pairs[Len(pairs)])

\* ORDER BY f.current_path, s.start_line
OrderByPathStart(rows) ==
    LET pairs == [i \in DOMAIN rows |->
                     [key |-> <<PathRank[rows[i].current_path], rows[i].start_line>>,
                      row |-> rows[i]]]
        sorted == SortPairs(pairs)
    IN [i \in DOMAIN sorted |-> sorted[i].row]

\* SELECT DISTINCT ... (not what the code does)
RECURSIVE Distinct(_)
Distinct(rows) ==
    IF rows = <<>> THEN <<>>
    ELSE LET init == Distinct(SubSeq(rows, 1, Len(rows) - 1))
             last == rows[Len(rows)]
         IN IF \E i \in DOMAIN init : init[i] = last THEN init ELSE Append(init, last)

AllSymbolsDistinct(syms, fls) == OrderByPathStart(Distinct(JoinSymbolsFiles(syms, fls)))

\* SELECT ... FROM symbols s JOIN files f ... ORDER BY f.current_path, s.start_line
AllSymbolsQuery(syms, fls) == OrderByPathStart(JoinSymbolsFiles(syms, fls))

\* get_all_symbols(conn)
get_all_symbols == AllSymbolsQuery(symbols, files)


-----------------------------------------------------------------------------
(* The OpenSearch index git-commits *)

\* opensearch.get(index, id): the document, or NotFoundError.
OsExists(index, id) == \E i \in DOMAIN index : index[i].id = id

\* opensearch.index(index, id, body): create the document, or replace it.
OsIndex(index, id, doc) ==
    IF OsExists(index, id)
    THEN [i \in DOMAIN index |-> IF index[i].id = id THEN [id |-> id, doc |-> doc] ELSE index[i]]
    ELSE Append(index, [id |-> id, doc |-> doc])

\* store_commit without the existence check (not what the code does).
StoreCommitAlways(index, commit, repo_name, doc) == OsIndex(index, commit.commit_hash, doc)

\* CommitHistoryProcessor.store_commit: return when the id exists, index otherwise.
StoreCommit(index, commit, repo_name, doc) ==
    IF OsExists(index, commit.commit_hash) THEN index
    ELSE OsIndex(index, commit.commit_hash, doc)

\* The document store_commit builds from a commit dictionary.
CommitDoc(commit, repo_name) ==
    [commit_hash |-> commit.commit_hash, repo_name |-> repo_name,
     author |-> commit.author, author_email |-> commit.author_email,
     message |-> commit.message, timestamp |-> IsoText(commit.timestamp),
     changed_files |-> commit.changed_files, embedding |-> commit.embedding]

-----------------------------------------------------------------------------
(* Operations of the store *)

StoreInit ==
    /\ commits = <<>>
    /\ files = <<>>
    /\ symbols = <<>>
    /\ osCommits = <<>>
    /\ firstCall = [k \in Stores \X Hashes |-> NoRow]
    /\ lastCall = [k \in Stores \X Hashes |-> NoRow]
    /\ returned = [p \in Paths |-> {}]
    /\ fileCalls = [p \in Paths |-> 0]
    /\ insertLog = <<>>

RecordFirst(store, sha, fields) ==
    IF firstCall[<<store, sha>>] = NoRow
    THEN [firstCall EXCEPT ![<<store, sha>>] = fields]
    ELSE firstCall

\* lambda_function.insert_commit(conn, sha, author_name, author_email, message, date)
insert_commit(sha, author_name, author_email, message, date) ==
    LET row == CommitRow(sha, author_name, author_email, message, date) IN
    /\ commits' = InsertOrIgnoreCommit(commits, row)
    /\ firstCall' = RecordFirst("sqlite", sha, row)
    /\ lastCall' = [lastCall EXCEPT ![<<"sqlite", sha>>] = row]
    /\ UNCHANGED <<files, symbols, osCommits, returned, fileCalls, insertLog>>

\* index_repo.insert_commit(conn, commit): commit is a GitPython commit object;
\* the message is stripped and the epoch seconds become an ISO text.
index_insert_commit(commit) ==
    LET row == CommitRow(commit.hexsha, commit.author.name, commit.author.email,
                         Strip(commit.message), IsoText(commit.committed_date)) IN
    /\ commits' = InsertOrIgnoreCommit(commits, row)
    /\ firstCall' = RecordFirst("sqlite", commit.hexsha, row)
    /\ lastCall' = [lastCall EXCEPT ![<<"sqlite", commit.hexsha>>] = row]
    /\ UNCHANGED <<files, symbols, osCommits, returned, fileCalls, insertLog>>

\* CommitHistoryProcessor.store_commit(commit, repo_name)
store_commit(commit, repo_name) ==
    LET doc == CommitDoc(commit, repo_name) IN
    /\ osCommits' = StoreCommit(osCommits, commit, repo_name, doc)
    /\ firstCall' = RecordFirst("opensearch", commit.commit_hash, doc)
    /\ lastCall' = [lastCall EXCEPT ![<<"opensearch", commit.commit_hash>>] = doc]
    /\ UNCHANGED <<commits, files, symbols, returned, fileCalls, insertLog>>

\* insert_file(conn, path): returns the file_id
insert_file(path) ==
    LET tbl == InsertOrIgnoreFile(files, path) IN
    /\ files' = tbl
    /\ returned' = [returned EXCEPT ![path] = @ \cup {SelectFileId(tbl, path)}]
    /\ fileCalls' = [fileCalls EXCEPT ![path] = IF @ = 0 THEN 1 ELSE 2]
    /\ UNCHANGED <<commits, symbols, osCommits, firstCall, lastCall, insertLog>>

\* insert_symbol(conn, file_id, commit_sha, kind, name, start_line, end_line);
\* a kind the CHECK constraint rejects raises and inserts nothing.
insert_symbol(file_id, commit_sha, kind, name, start_line, end_line) ==
    /\ Len(symbols) < MaxSymbols
    /\ IF KindCheck(kind)
       THEN /\ symbols' = InsertSymbolRow(symbols, file_id, commit_sha, kind, name,
                                          start_line, end_line)
            /\ insertLog' = Append(insertLog,
                   [file_id |-> file_id, commit_sha |-> commit_sha, kind |-> kind,
                    name |-> name, start_line |-> start_line, end_line |-> end_line])
       ELSE UNCHANGED <<symbols, insertLog>>
    /\ UNCHANGED <<commits, files, osCommits, firstCall, lastCall, returned, fileCalls>>

\* What the callers pass.
GitCommits ==
    { [hexsha |-> h, author |-> [name |-> f.author, email |-> f.email],
       message |-> f.message, committed_date |-> f.date] : h \in Hashes, f \in CommitFields }

CommitDicts ==
    { [commit_hash |-> h, author |-> f.author, author_email |-> f.email,
       message |-> f.message, timestamp |-> f.date,
       changed_files |-> "a.py", embedding |-> <<f.date>>] : h \in Hashes, f \in CommitFields }

InsertCommitStep ==
    \E h \in Hashes, f \in CommitFields :
        insert_commit(h, f.author, f.email, f.message, IsoText(f.date))

IndexInsertCommitStep == \E c \in GitCommits : index_insert_commit(c)

StoreCommitStep == \E c \in CommitDicts : store_commit(c, "repo")

InsertFileStep == \E p \in Paths : insert_file(p)

InsertSymbolStep ==
    \E id \in FileIds, h \in Hashes, s \in SymbolShapes :
        insert_symbol(id, h, s.kind, s.name, s.start_line, s.end_line)


-----------------------------------------------------------------------------
(* Python source files *)

(* A source file is its definitions in source order.  Each definition has a  *)
(* kind, a number of decorator lines above its keyword line, a number of     *)
(* simple statement lines that open its body, and a nesting depth; the       *)
(* definitions nested in it follow it with a greater depth.  A broken file   *)
(* ends with one more top-level line that is not valid Python.               *)
DefKinds == {"def", "async def", "class"}

NameOf(kind) == IF kind = "class" THEN "C" ELSE IF kind = "def" THEN "f" ELSE "g"

DefNodes ==
    [kind : DefKinds, decorators : 0 .. MaxDecorators, body : 1 .. MaxBody,
     depth : 0 .. MaxDefs - 1]

ValidNesting(defs) ==
    /\ defs # <<>> => defs[1].depth = 0
    /\ \A i \in 2 .. Len(defs) : defs[i].depth <= defs[i - 1].depth + 1

DefSeqs ==
    UNION { {d \in [1 .. n -> DefNodes] : ValidNesting(d)} : n \in 0 .. MaxDefs }

Extensions == {".py", ".go"}

SourceFiles == [defs : DefSeqs, broken : BOOLEAN, ext : Extensions]

NoSource == [defs |-> <<>>, broken |-> FALSE, ext |-> ""]

\* a.py: function f on lines 1-3.  b.py: class C, decorated on line 1,
\* keyword on line 2, body to line 5.
AFile == [defs |-> <<[kind |-> "def", decorators |-> 0, body |-> 2, depth |-> 0]>>,
          broken |-> FALSE, ext |-> ".py"]

BFile == [defs |-> <<[kind |-> "class", decorators |-> 1, body |-> 3, depth |-> 0]>>,
          broken |-> FALSE, ext |-> ".py"]

RECURSIVE LinesUpTo(_, _)
LinesUpTo(defs, k) ==
    IF k = 0 THEN 0
    ELSE LinesUpTo(defs, k - 1) + defs[k].decorators + 1 + defs[k].body

\* Line of the first decorator (of the keyword when there is none).
FirstLine(defs, i) == LinesUpTo(defs, i - 1) + 1

\* Line of the def / class keyword.
KeywordLine(defs, i) == FirstLine(defs, i) + defs[i].decorators

\* The last definition nested in definition i (i itself when none is).
RECURSIVE LastNested(_, _, _)
LastNested(defs, i, k) ==
    IF k < Len(defs) /\ defs[k + 1].depth > defs[i].depth
    THEN LastNested(defs, i, k + 1)
    ELSE k

\* Last line of definition i: the last line of its body.
EndLine(defs, i) == LinesUpTo(defs, LastNested(defs, i, i))

LineCount(f) == LinesUpTo(f.defs, Len(f.defs)) + (IF f.broken THEN 1 ELSE 0)

-----------------------------------------------------------------------------
(* ast-based extraction: lambda_function.parse_python_file and               *)
(* code_parser.parse_python_with_ast                                         *)

Symbol(kind, name, start_line, end_line) ==
    [kind |-> kind, name |-> name, start_line |-> start_line, end_line |-> end_line]

\* ast.parse raises SyntaxError on a file with a malformed statement.
AstParseRaises(f) == f.broken

\* ast.walk yields the nodes breadth first: by depth, then in source order.
AstWalk(defs) ==
    LET pairs == [i \in DOMAIN defs |-> [key |-> <<defs[i].depth, i>>, row |-> i]]
        sorted == SortPairs(pairs)
    IN [k \in DOMAIN sorted |-> sorted[k].row]

\* isinstance(node, ast.FunctionDef): a plain def; an async def is an
\* ast.AsyncFunctionDef, which is no subclass of ast.FunctionDef.
IsFunctionDef(node) == node.kind = "def"

IsClassDef(node) == node.kind = "class"

\* node.lineno is the line of the def / class keyword (Python 3.8 and later,
\* the versions that have end_lineno); node.end_lineno the last body line.
RECURSIVE AstCollect(_, _)
AstCollect(defs, order) ==
    IF order = <<>> THEN <<>>
    ELSE LET i == Head(order)
             rest == AstCollect(defs, Tail(order))
         IN IF IsFunctionDef(defs[i])
            THEN <<Symbol("function", NameOf(defs[i].kind), KeywordLine(defs, i),
                          EndLine(defs, i))>> \o rest
            ELSE IF IsClassDef(defs[i])
            THEN <<Symbol("class", NameOf(defs[i].kind), KeywordLine(defs, i),
                          EndLine(defs, i))>> \o rest
            ELSE rest

\* parse_python_file(file_path, content): [] on SyntaxError or any exception.
parse_python_file(f) ==
    IF AstParseRaises(f) THEN <<>> ELSE AstCollect(f.defs, AstWalk(f.defs))

\* parse_file(file_path, content): dispatch on the extension.
parse_file(f) == IF f.ext = ".py" THEN parse_python_file(f) ELSE <<>>

\* code_parser.detect_language(filename)
detect_language(f) == IF f.ext = ".py" THEN "python" ELSE "none"

\* code_parser.parse_python_with_ast(source_code, filepath): [] on SyntaxError.
parse_python_with_ast(f) ==
    IF AstParseRaises(f) THEN <<>> ELSE AstCollect(f.defs, AstWalk(f.defs))

\* code_parser.parse_code_file(filepath), for a file that can be read.
parse_code_file(f) ==
    IF detect_language(f) = "none" THEN <<>>
    ELSE IF detect_language(f) = "python" THEN parse_python_with_ast(f)
    ELSE <<>>

-----------------------------------------------------------------------------
(* tree-sitter extraction: database/parser.parse_symbols                     *)

\* span_node_for_identifier: the enclosing definition, or the
\* decorated_definition that wraps it; lines() turns rows into 1-based lines.
SpanLines(defs, i) ==
    IF defs[i].decorators > 0
    THEN <<FirstLine(defs, i), EndLine(defs, i)>>
    ELSE <<KeywordLine(defs, i), EndLine(defs, i)>>

\* The captures of the query for definition i.  The patterns @fname / @cname
\* match the name of every function_definition / class_definition (an async
\* def is a function_definition); @dfname / @dcname match it again when the
\* definition sits in a decorated_definition.
CapturesOf(defs, i) ==
    LET kind == IF defs[i].kind = "class" THEN "class" ELSE "function"
        span == SpanLines(defs, i)
        one == <<Symbol(kind, NameOf(defs[i].kind), span[1], span[2])>>
    IN IF defs[i].decorators > 0 THEN one \o one ELSE one

RECURSIVE QueryCaptures(_, _)
QueryCaptures(defs, i) ==
    IF i > Len(defs) THEN <<>>
    ELSE CapturesOf(defs, i) \o QueryCaptures(defs, i + 1)

\* parse_symbols(file_path): parser.parse never fails; a malformed line
\* becomes an ERROR node next to the definitions that parsed, and nothing
\* looks at root.has_error.
parse_symbols(f) ==
    IF f.ext # ".py" THEN <<>> ELSE QueryCaptures(f.defs, 1)

-----------------------------------------------------------------------------
(* One extractor applied to one source file *)

ParseIdle ==
    /\ src = NoSource
    /\ extractor = "none"
    /\ result = <<>>
    /\ raised = FALSE

ParseInit ==
    /\ src \in SourceFiles
    /\ extractor = "none"
    /\ result = <<>>
    /\ raised = FALSE

\* lambda_function.parse_file
ParseFile ==
    /\ extractor = "none"
    /\ extractor' = "parse_file"
    /\ result' = parse_file(src)
    /\ raised' = FALSE
    /\ UNCHANGED src

\* code_parser.parse_code_file
ParseCodeFile ==
    /\ extractor = "none"
    /\ extractor' = "parse_code_file"
    /\ result' = parse_code_file(src)
    /\ raised' = FALSE
    /\ UNCHANGED src

\* database/parser.parse_symbols
ParseSymbols ==
    /\ extractor = "none"
    /\ extractor' = "parse_symbols"
    /\ result' = parse_symbols(src)
    /\ raised' = FALSE
    /\ UNCHANGED src

-----------------------------------------------------------------------------
(* One indexing run: the per-file loops of lambda_function.process_repository *)
(* and code_parser.parse_repository_from_url.  The run's files are those the  *)
(* directory walk visits, after it has pruned the directories it skips.       *)

SUPPORTED_EXTENSIONS == {".py", ".js", ".ts", ".java", ".go", ".cpp", ".c", ".jsx", ".tsx"}

\* bad.py: one function, then a line that is not valid Python.
BadFile == [defs |-> <<[kind |-> "def", decorators |-> 0, body |-> 1, depth |-> 0]>>,
            broken |-> TRUE, ext |-> ".py"]

GoFile == [defs |-> <<>>, broken |-> FALSE, ext |-> ".go"]

\* A file of the working copy: its relative path, its content, and whether
\* open() / read() succeeds on it.
RunEntries ==
    { [path |-> "a.py",      file |-> AFile,   readable |-> TRUE],
      [path |-> "b.py",      file |-> BFile,   readable |-> TRUE],
      [path |-> "bad.py",    file |-> BadFile, readable |-> TRUE],
      [path |-> "locked.py", file |-> AFile,   readable |-> FALSE],
      [path |-> "main.go",   file |-> GoFile,  readable |-> TRUE] }

\* os.walk lists every file once.
Runs ==
    UNION { {r \in [1 .. n -> RunEntries] : \A i, j \in 1 .. n : i # j => r[i] # r[j]}
            : n \in 0 .. MaxRunFiles }

\* for kind, name, start, end in symbols: insert_symbol(conn, file_id, head_sha, ...)
RECURSIVE InsertSymbols(_, _, _, _)
InsertSymbols(tbl, file_id, sha, syms) ==
    IF syms = <<>> THEN tbl
    ELSE InsertSymbols(
             InsertSymbolRow(tbl, file_id, sha, Head(syms).kind, Head(syms).name,
                             Head(syms).start_line, Head(syms).end_line),
             file_id, sha, Tail(syms))

\* The body of the try of process_repository for a file that was read:
\* parse it and, when it has symbols, insert the file and its symbols.
StoreFileSymbols(fls, syms, entry, sha) ==
    LET found == parse_file(entry.file) IN
    IF found = <<>> THEN [files |-> fls, symbols |-> syms]
    ELSE LET tbl == InsertOrIgnoreFile(fls, entry.path)
         IN [files |-> tbl,
             symbols |-> InsertSymbols(syms, SelectFileId(tbl, entry.path), sha, found)]

\* A loop that lets the exception of an unreadable file end the run (not
\* what the code does).
LambdaFileAborting(fls, syms, entry, sha, pos, last) ==
    IF entry.file.ext \notin SUPPORTED_EXTENSIONS
    THEN [files |-> fls, symbols |-> syms, next |-> pos + 1]
    ELSE IF ~entry.readable
    THEN [files |-> fls, symbols |-> syms, next |-> last + 1]
    ELSE LET t == StoreFileSymbols(fls, syms, entry, sha)
         IN [files |-> t.files, symbols |-> t.symbols, next |-> pos + 1]

\* One iteration of the file loop of process_repository: an unsupported
\* extension is skipped; an exception while reading is caught and the loop
\* goes on with the next file.
LambdaFile(fls, syms, entry, sha, pos, last) ==
    IF entry.file.ext \notin SUPPORTED_EXTENSIONS
    THEN [files |-> fls, symbols |-> syms, next |-> pos + 1]
    ELSE IF ~entry.readable
    THEN [files |-> fls, symbols |-> syms, next |-> pos + 1]
    ELSE LET t == StoreFileSymbols(fls, syms, entry, sha)
         IN [files |-> t.files, symbols |-> t.symbols, next |-> pos + 1]

\* code_parser.parse_code_file(filepath) on a file of the working copy:
\* a file that cannot be read yields [].
ParseCodePath(entry) ==
    IF detect_language(entry.file) = "none" THEN <<>>
    ELSE IF ~entry.readable THEN <<>>
    ELSE parse_code_file(entry.file)

\* item['path'] = relative_path
WithPath(items, path) ==
    [k \in DOMAIN items |->
        [current_path |-> path, kind |-> items[k].kind, name |-> items[k].name,
         start_line |-> items[k].start_line, end_line |-> items[k].end_line]]

\* One iteration of the file loop of parse_repository_from_url.
ParserFile(items, entry) ==
    IF detect_language(entry.file) = "none" THEN items
    ELSE items \o WithPath(ParseCodePath(entry), entry.path)

RunIdle ==
    /\ run = <<>>
    /\ head_sha = "h1"
    /\ lambdaPos = 1
    /\ parserPos = 1
    /\ all_items = <<>>

RunInit ==
    /\ run \in Runs
    /\ head_sha \in Hashes
    /\ lambdaPos = 1
    /\ parserPos = 1
    /\ all_items = <<>>

\* process_repository: the next file of the loop
LambdaFileStep ==
    /\ lambdaPos <= Len(run)
    /\ LET t == LambdaFile(files, symbols, run[lambdaPos], head_sha, lambdaPos, Len(run)) IN
         /\ files' = t.files
         /\ symbols' = t.symbols
         /\ lambdaPos' = t.next
    /\ UNCHANGED <<commits, osCommits, firstCall, lastCall, returned, fileCalls, insertLog>>
    /\ UNCHANGED <<run, head_sha, parserPos, all_items>>

\* parse_repository_from_url: the next file of the loop
ParserFileStep ==
    /\ parserPos <= Len(run)
    /\ all_items' = ParserFile(all_items, run[parserPos])
    /\ parserPos' = parserPos + 1
    /\ UNCHANGED <<run, head_sha, lambdaPos>>
    /\ UNCHANGED storeVars

-----------------------------------------------------------------------------
(* Embeddings and retrieval: generate_embeddings, build_faiss_index,          *)
(* load_index, query_index.  A vector is modelled by one integer coordinate;  *)
(* the index is exact L2, so a distance is a squared difference.              *)

\* The text field of a payload item: missing, or a text (possibly empty or
\* blank).
Texts == {<<>>, <<" ">>, <<"a">>, <<"b">>}

Items == [id : 1 .. MaxItems, has_text : BOOLEAN, text : Texts]

\* A payload list as a processor writes it: item k carries id k, and a
\* missing text field has no text.
DataLists ==
    UNION { {d \in [1 .. n -> Items] :
                \A k \in 1 .. n : d[k].id = k /\ (~d[k].has_text => d[k].text = <<>>)}
            : n \in 0 .. MaxItems }

QueryTexts == {<<"a">>, <<"q">>}

\* utils.create_embedding(text), when the service answers.
Embed(text) ==
    CASE text = <<"a">> -> 1
      [] text = <<"b">> -> 4
      [] text = <<"q">> -> 2
      [] OTHER -> 7

\* np.zeros(1536)
ZeroVector == 0

L2(u, v) == (u - v) * (u - v)

\* The distance FAISS reports for a result slot it could not fill: larger
\* than every distance between two vectors.
NoDistance == L2(0, 7) + 1

Absent == [present |-> FALSE, vectors |-> <<>>]

Stored(vectors) == [present |-> TRUE, vectors |-> vectors]

\* text = item.get(text_key); if text and text.strip()
HasValidText(item) == item.has_text /\ item.text # <<>> /\ Strip(item.text) # <<>>

\* The loop of generate_embeddings over data[k ..]: an item with valid text
\* gets its embedding, or a zero vector when create_embedding raises (the
\* items at the positions of failed); an item without valid text is skipped.
RECURSIVE EmbedItems(_, _, _)
EmbedItems(items, k, failed) ==
    IF k > Len(items) THEN <<>>
    ELSE IF HasValidText(items[k])
    THEN <<IF k \in failed THEN ZeroVector ELSE Embed(items[k].text)>>
            \o EmbedItems(items, k + 1, failed)
    ELSE EmbedItems(items, k + 1, failed)

\* The positions 0 .. n-1 of the index ordered by distance to the query,
\* nearest first (equal distances in position order).
NearestFirst(vectors, q) ==
    LET pairs == [i \in DOMAIN vectors |-> [key |-> <<L2(vectors[i], q), i>>, row |-> i - 1]]
        sorted == SortPairs(pairs)
    IN [k \in DOMAIN sorted |-> sorted[k].row]

\* index.search(query_vec, top_k): top_k labels and distances; the slots
\* beyond the vectors of the index hold label -1.
SearchLabels(vectors, q, k) ==
    LET near == NearestFirst(vectors, q)
    IN [s \in 1 .. k |-> IF s <= Len(near) THEN near[s] ELSE -1]

SearchDistances(vectors, q, k) ==
    LET near == NearestFirst(vectors, q)
    IN [s \in 1 .. k |-> IF s <= Len(near) THEN L2(vectors[near[s] + 1], q) ELSE NoDistance]

\* data[i] of a Python list: a negative i counts from the end.
PyIndex(list, i) == IF i >= 0 THEN list[i + 1] ELSE list[Len(list) + i + 1]

PyIndexRaises(list, i) == i >= Len(list) \/ i < -Len(list)

\* [data[i] for i in I[0] if i < len(data)]
RECURSIVE PickResults(_, _)
PickResults(list, labels) ==
    IF labels = <<>> THEN <<>>
    ELSE IF Head(labels) < Len(list)
    THEN <<PyIndex(list, Head(labels))>> \o PickResults(list, Tail(labels))
    ELSE PickResults(list, Tail(labels))

PickRaises(list, labels) ==
    \E s \in DOMAIN labels : labels[s] < Len(list) /\ PyIndexRaises(list, labels[s])

NoReturn ==
    [op |-> "none", error |-> "", results |-> <<>>, distances |-> <<>>,
     labels |-> <<>>, query |-> <<>>, top_k |-> 0]

Returned(op, error) == [NoReturn EXCEPT !.op = op, !.error = error]

QueryRaised(error, query_text, top_k) ==
    [Returned("query", error) EXCEPT !.query = query_text, !.top_k = top_k]

IndexIdle ==
    /\ data = <<>>
    /\ embFile = Absent
    /\ indexFile = Absent
    /\ ret = NoReturn

IndexInit ==
    /\ data \in DataLists
    /\ embFile = Absent
    /\ indexFile = Absent
    /\ ret = NoReturn

\* GitProcessor.process_repository: json.dump of the fetched list to DATA_DIR
WriteData ==
    /\ \E d \in DataLists : data' = d
    /\ ret' = Returned("write", "")
    /\ UNCHANGED <<embFile, indexFile>>

\* generate_embeddings(data, text_key, output_path); failed: the positions
\* whose create_embedding call raises
generate_embeddings(failed) ==
    LET embeddings == EmbedItems(data, 1, failed) IN
    /\ embFile' = IF data = <<>> \/ embeddings = <<>> THEN embFile ELSE Stored(embeddings)
    /\ ret' = Returned("generate", "")
    /\ UNCHANGED <<data, indexFile>>

GenerateEmbeddings == \E failed \in SUBSET (1 .. MaxItems) : generate_embeddings(failed)

\* build_faiss_index(name)
build_faiss_index ==
    IF ~embFile.present
    THEN /\ ret' = Returned("build", "FileNotFoundError")
         /\ UNCHANGED <<data, embFile, indexFile>>
    ELSE /\ indexFile' = Stored(embFile.vectors)
         /\ ret' = Returned("build", "")
         /\ UNCHANGED <<data, embFile>>

\* query_index(name, query_text, top_k); up: whether create_embedding answers
query_index(query_text, top_k, up) ==
    LET built == ~indexFile.present /\ embFile.present
        index == IF indexFile.present THEN indexFile ELSE embFile
        labels == SearchLabels(index.vectors, Embed(query_text), top_k)
        dists == SearchDistances(index.vectors, Embed(query_text), top_k)
    IN
    IF ~index.present
    THEN /\ ret' = QueryRaised("FileNotFoundError", query_text, top_k)
         /\ UNCHANGED <<data, embFile, indexFile>>
    ELSE /\ indexFile' = index
         /\ UNCHANGED <<data, embFile>>
         /\ ret' = IF ~up THEN QueryRaised("ServiceError", query_text, top_k)
                   ELSE IF PickRaises(data, labels)
                   THEN QueryRaised("IndexError", query_text, top_k)
                   ELSE [op |-> "query", error |-> "",
                         results |-> PickResults(data, labels), distances |-> dists,
                         labels |-> labels, query |-> query_text, top_k |-> top_k]

QueryIndex ==
    \E q \in QueryTexts, k \in 1 .. MaxTopK, up \in BOOLEAN : query_index(q, k, up)

-----------------------------------------------------------------------------
(* The Lambda handler: lambda_handler, process_repository, build_context.     *)
(* REPO_CACHE lives in the memory of the container and the SQLite files live  *)
(* in its /tmp; both outlast one request.                                     *)

\* Two spellings of the URL of one repository.
ValidUrls == {"https://github.com/o/r", "https://github.com/o/r/"}

\* The last one does not start with https://github.com/.
Urls == ValidUrls \cup {"git@github.com:o/r"}

\* extract_repo_info(repo_url)['full_name']; ValueError for a URL of
\* another form.
FullName(repo_url) == "o/r"

ExtractRaises(repo_url) == repo_url \notin ValidUrls

\* A database file after init_db on a path that did not exist.
EmptyDb == [commits |-> <<>>, files |-> <<>>, symbols |-> <<>>]

ApiCommit(sha, f) ==
    [sha |-> sha, message |-> f.message, author |-> f.author, email |-> f.email,
     date |-> IsoText(f.date)]

Commit1 == ApiCommit("h1", CHOOSE f \in CommitFields : f.author = "alice")

Commit2 == ApiCommit("h2", CHOOSE f \in CommitFields : f.author = "bob")

ApiPr(number, title) ==
    [number |-> number, title |-> title, state |-> "open", user |-> "alice",
     created_at |-> IsoText(number)]

TreeEntry(path) == CHOOSE e \in RunEntries : e.path = path

\* A file with two definitions: class C and its method f.
MethodFile ==
    [defs |-> <<[kind |-> "class", decorators |-> 0, body |-> 1, depth |-> 0],
                [kind |-> "def", decorators |-> 0, body |-> 1, depth |-> 1]>>,
     broken |-> FALSE, ext |-> ".py"]

\* What GitHub holds for a repository: the working copy a clone delivers (in
\* os.walk order), its recent commits and its pull requests.
Remotes ==
    { [tree |-> <<TreeEntry("a.py")>>,
       commits |-> <<Commit1>>, prs |-> <<ApiPr(1, <<"o", "n", "e">>)>>],
      [tree |-> <<TreeEntry("a.py"), TreeEntry("b.py")>>,
       commits |-> <<Commit2, Commit1>>, prs |-> <<>>],
      [tree |-> <<TreeEntry("main.go"), TreeEntry("bad.py")>>,
       commits |-> <<Commit1>>, prs |-> <<ApiPr(2, <<"t", "w", "o">>), ApiPr(1, <<"o", "n", "e">>)>>],
      [tree |-> <<TreeEntry("locked.py"),
                  [path |-> "b.py", file |-> MethodFile, readable |-> TRUE]>>,
       commits |-> <<Commit2, Commit1>>, prs |-> <<ApiPr(1, <<"o", "n", "e">>)>>] }

NoFault == [table |-> "none", key |-> "", at |-> 0]

\* The statement of a run that raises sqlite3.Error: the insert of one commit,
\* of one file, or of the at-th symbol of one file.
Faults ==
    {NoFault,
     [table |-> "commits", key |-> "h1", at |-> 0],
     [table |-> "files", key |-> "b.py", at |-> 0],
     [table |-> "symbols", key |-> "b.py", at |-> 1]}

\* What one process request meets outside the program: which GitHub API
\* requests succeed, whether git is installed and the clone and rev-parse
\* succeed, and which insert raises.
Env(details_up, commits_up, prs_up, git, head_ok, fault) ==
    [details_up |-> details_up, commits_up |-> commits_up, prs_up |-> prs_up,
     git |-> git, head_ok |-> head_ok, fault |-> fault]

\* The environments explored: one kind of trouble per request.
\* The environments explored have one kind of trouble per request.  A clone
\* that times out and a clone that fails both raise Exception.
Envs ==
    {Env(TRUE, TRUE, TRUE, "ok", TRUE, NoFault),
     Env(FALSE, TRUE, TRUE, "ok", TRUE, NoFault),
     Env(TRUE, FALSE, TRUE, "ok", TRUE, NoFault),
     Env(TRUE, TRUE, FALSE, "ok", TRUE, NoFault),
     Env(FALSE, FALSE, FALSE, "ok", TRUE, NoFault),
     Env(TRUE, TRUE, TRUE, "missing", TRUE, NoFault),
     Env(TRUE, TRUE, TRUE, "clone_failed", TRUE, NoFault),
     Env(TRUE, TRUE, TRUE, "ok", FALSE, NoFault)}
      \cup {Env(TRUE, TRUE, TRUE, "ok", TRUE, f) : f \in Faults}

\* fetch_commits / fetch_pull_requests / fetch_repo_info: github_api_request
\* returns None when the request fails, and the fetch returns [] (or {}).
fetch_commits(remote, env) == IF env.commits_up THEN remote.commits ELSE <<>>

fetch_pull_requests(remote, env) == IF env.prs_up THEN remote.prs ELSE <<>>

\* The details of a repository, and {} (every .get of it gives nothing).
Details(description, language, stars, forks) ==
    [description |-> description, language |-> language, stars |-> stars,
     forks |-> forks]

NoDetails == Details("", "", 0, 0)

fetch_repo_info(repo_url, env) ==
    IF env.details_up THEN Details("d", "Python", 1, 1) ELSE NoDetails

\* for commit in commits: try: insert_commit(...) except: print
RECURSIVE InsertCommits(_, _, _)
InsertCommits(tbl, cs, fault) ==
    IF cs = <<>> THEN tbl
    ELSE LET c == Head(cs)
             row == CommitRow(c.sha, c.author, c.email, c.message, c.date)
         IN InsertCommits(
                IF fault.table = "commits" /\ fault.key = c.sha THEN tbl
                ELSE InsertOrIgnoreCommit(tbl, row),
                Tail(cs), fault)

\* head_sha: git rev-parse HEAD, or the first fetched commit, or 'unknown'.
HeadSha(cs, env) ==
    IF env.head_ok THEN "h1" ELSE IF cs # <<>> THEN cs[1].sha ELSE "unknown"

\* The symbols of a file that reach the table when the at-th insert raises:
\* the exception leaves the loop over the file's symbols.
InsertedBefore(found, path, fault) ==
    IF fault.table = "symbols" /\ fault.key = path /\ fault.at <= Len(found)
    THEN SubSeq(found, 1, fault.at - 1)
    ELSE found

\* One iteration of the file loop of process_repository, with the insert
\* that raises: the except clause of the file catches it.
ProcessFile(db, entry, sha, fault) ==
    IF entry.file.ext \notin SUPPORTED_EXTENSIONS \/ ~entry.readable THEN db
    ELSE LET found == parse_file(entry.file) IN
         IF found = <<>> THEN db
         ELSE IF fault.table = "files" /\ fault.key = entry.path THEN db
         ELSE LET tbl == InsertOrIgnoreFile(db.files, entry.path)
              IN [db EXCEPT
                    !.files = tbl,
                    !.symbols = InsertSymbols(db.symbols, SelectFileId(tbl, entry.path), sha,
                                              InsertedBefore(found, entry.path, fault))]

RECURSIVE ProcessFiles(_, _, _, _)
ProcessFiles(db, tree, sha, fault) ==
    IF tree = <<>> THEN db
    ELSE ProcessFiles(ProcessFile(db, Head(tree), sha, fault), Tail(tree), sha, fault)

\* get_file_statistics: FROM files f LEFT JOIN symbols s ON f.file_id = s.file_id
\* GROUP BY f.current_path, with the two counts.
FileCounts(db) ==
    [i \in DOMAIN db.files |->
        [current_path |-> db.files[i].current_path,
         functions |-> Cardinality({k \in DOMAIN db.symbols :
                           /\ db.symbols[k].file_id = db.files[i].file_id
                           /\ db.symbols[k].kind = "function"}),
         classes |-> Cardinality({k \in DOMAIN db.symbols :
                           /\ db.symbols[k].file_id = db.files[i].file_id
                           /\ db.symbols[k].kind = "class"})]]

\* ORDER BY (functions + classes) DESC; groups with equal totals stay in
\* path order.
OrderByTotalDesc(rows) ==
    LET pairs == [i \in DOMAIN rows |->
                     [key |-> <<0 - (rows[i].functions + rows[i].classes),
                                PathRank[rows[i].current_path]>>,
                      row |-> rows[i]]]
        sorted == SortPairs(pairs)
    IN [i \in DOMAIN sorted |-> sorted[i].row]

\* get_file_statistics(conn)
get_file_statistics(db) == OrderByTotalDesc(FileCounts(db))

\* all_symbols[:200] and file_stats[:50]
SymbolLimit == 200

FileStatLimit == 50

\* list[:n]
Prefix(list, n) == SubSeq(list, 1, IF Len(list) < n THEN Len(list) ELSE n)

CountKind(rows, kind) == Cardinality({i \in DOMAIN rows : rows[i].kind = kind})

\* {'file': s[0], 'kind': s[1], 'name': s[2], 'start_line': s[3], 'end_line': s[4]}
SymbolDicts(rows) ==
    [i \in DOMAIN rows |->
        [file |-> rows[i].current_path, kind |-> rows[i].kind, name |-> rows[i].name,
         start_line |-> rows[i].start_line, end_line |-> rows[i].end_line]]

\* {'file': f[0], 'functions': f[1], 'classes': f[2]}
FileStatDicts(rows) ==
    [i \in DOMAIN rows |->
        [file |-> rows[i].current_path, functions |-> rows[i].functions,
         classes |-> rows[i].classes]]

\* The result process_repository builds from the database and the fetched
\* metadata.
BuildResult(repo_url, details, cs, prs, db) ==
    LET all_symbols == AllSymbolsQuery(db.symbols, db.files)
        file_stats == get_file_statistics(db)
    IN [repo |-> FullName(repo_url), details |-> details, commits |-> cs, prs |-> prs,
        symbols |-> SymbolDicts(Prefix(all_symbols, SymbolLimit)),
        file_stats |-> FileStatDicts(Prefix(file_stats, FileStatLimit)),
        stats |-> [commits_count |-> Len(cs), prs_count |-> Len(prs),
                   functions_count |-> CountKind(all_symbols, "function"),
                   classes_count |-> CountKind(all_symbols, "class"),
                   files_count |-> Len(file_stats)],
        warning |-> ""]

\* The partial result returned when git is not installed.
PartialResult(repo_url, details, cs, prs) ==
    [repo |-> FullName(repo_url), details |-> details, commits |-> cs, prs |-> prs,
     symbols |-> <<>>, file_stats |-> <<>>,
     stats |-> [commits_count |-> Len(cs), prs_count |-> Len(prs),
                functions_count |-> 0, classes_count |-> 0, files_count |-> 0],
     warning |-> "Git not available - code parsing skipped"]

NoResult == [repo |-> ""]

\* process_repository(repo_url, github_token) on the database file db of the
\* repository: the file afterwards, and the result or the exception.  The
\* commits are committed before the clone; the symbols only after the loop.
process_repository(repo_url, remote, db, env) ==
    LET details == fetch_repo_info(repo_url, env)
        cs == fetch_commits(remote, env)
        prs == fetch_pull_requests(remote, env)
        withCommits == [db EXCEPT !.commits = InsertCommits(db.commits, cs, env.fault)]
        parsed == ProcessFiles(withCommits, remote.tree, HeadSha(cs, env), env.fault)
    IN CASE env.git = "missing" ->
              [db |-> withCommits, raised |-> FALSE,
               result |-> PartialResult(repo_url, details, cs, prs)]
         [] env.git = "clone_failed" ->
              [db |-> withCommits, raised |-> TRUE, result |-> NoResult]
         [] OTHER ->
              [db |-> parsed, raised |-> FALSE,
               result |-> BuildResult(repo_url, details, cs, prs, parsed)]

\* The limits build_context applies.
ContextSymbols == 100

ContextFiles == 10

ContextNames == 10

ContextCommits == 5

ContextPrs == 5

MessageChars == 80

\* One line of the context: the part it belongs to, whether it is the
\* heading of that part, and its text as a label followed by values.
Line(part, heading, label, args) ==
    [part |-> part, heading |-> heading, label |-> label, args |-> args]

\* The paths of the symbols in first-occurrence order (the keys of by_file).
FirstPaths(syms) ==
    LET firsts == SelectSeq([k \in DOMAIN syms |-> k],
                            LAMBDA k : \A i \in 1..(k - 1) : syms[i].file # syms[k].file)
    IN [i \in DOMAIN firsts |-> syms[firsts[i]].file]

NamesOf(syms, path, kind) ==
    LET picked == SelectSeq(syms, LAMBDA s : s.file = path /\ s.kind = kind)
    IN [i \in DOMAIN picked |-> picked[i].name]

\* The lines of one file of the code structure part.
FileLines(syms, path) ==
    LET fns == NamesOf(syms, path, "function")
        cls == NamesOf(syms, path, "class")
    IN <<Line("structure", FALSE, "file:", <<path>>)>>
         \o (IF fns # <<>>
             THEN <<Line("structure", FALSE, "  Functions: ", Prefix(fns, ContextNames))>>
             ELSE <<>>)
         \o (IF cls # <<>>
             THEN <<Line("structure", FALSE, "  Classes: ", Prefix(cls, ContextNames))>>
             ELSE <<>>)

RECURSIVE AllFileLines(_, _)
AllFileLines(syms, paths) ==
    IF paths = <<>> THEN <<>>
    ELSE FileLines(syms, Head(paths)) \o AllFileLines(syms, Tail(paths))

\* A context that prints the three headings whatever the data (not what the
\* code does).
BuildContextAllHeadings(repo_data) ==
    <<Line("info", FALSE, "Repository: ", <<repo_data.repo>>),
      Line("structure", TRUE, "Code Structure:", <<>>),
      Line("commits", TRUE, "Recent Commits:", <<>>),
      Line("prs", TRUE, "Recent Pull Requests:", <<>>)>>

\* build_context(repo_data, query): the lines joined by '\n'.
build_context(repo_data) ==
    LET stats == repo_data.stats
        syms == Prefix(repo_data.symbols, ContextSymbols)
        cs == Prefix(repo_data.commits, ContextCommits)
        prs == Prefix(repo_data.prs, ContextPrs)
    IN <<Line("info", FALSE, "Repository: ", <<repo_data.repo>>)>>
         \o (IF repo_data.details.description # ""
             THEN <<Line("info", FALSE, "Description: ", <<repo_data.details.description>>)>>
             ELSE <<>>)
         \o <<Line("statistics", TRUE, "Codebase Statistics:", <<>>),
              Line("statistics", FALSE, "- Files: ", <<stats.files_count>>),
              Line("statistics", FALSE, "- Functions: ", <<stats.functions_count>>),
              Line("statistics", FALSE, "- Classes: ", <<stats.classes_count>>),
              Line("statistics", FALSE, "- Commits: ", <<stats.commits_count>>),
              Line("statistics", FALSE, "- Pull Requests: ", <<stats.prs_count>>)>>
         \o (IF repo_data.symbols # <<>>
             THEN <<Line("structure", TRUE, "Code Structure:", <<>>)>>
                    \o AllFileLines(syms, Prefix(FirstPaths(syms), ContextFiles))
             ELSE <<>>)
         \o (IF repo_data.commits # <<>>
             THEN <<Line("commits", TRUE, "Recent Commits:", <<>>)>>
                    \o [i \in DOMAIN cs |->
                          Line("commits", FALSE, "- ",
                               <<Prefix(cs[i].message, MessageChars), cs[i].author>>)]
             ELSE <<>>)
         \o (IF repo_data.prs # <<>>
             THEN <<Line("prs", TRUE, "Recent Pull Requests:", <<>>)>>
                    \o [i \in DOMAIN prs |->
                          Line("prs", FALSE, "- PR #",
                               <<prs[i].number, Prefix(prs[i].title, MessageChars), prs[i].state>>)]
             ELSE <<>>)

NoEnv == Env(TRUE, TRUE, TRUE, "ok", TRUE, NoFault)

\* A response of lambda_handler: the status code and the kind of body, with
\* the action and repo_url of the request, the environment a process request
\* met, the context an ask request built, the number of calls it made to
\* bedrock.invoke_model and what the call delivered.
Response(action, repo_url, statusCode, body) ==
    [action |-> action, repo_url |-> repo_url, statusCode |-> statusCode, body |-> body,
     env |-> NoEnv, context |-> <<>>, invoked |-> 0, completion |-> "none"]

NoResponse == Response("none", "", 0, "")

HandlerIdle ==
    /\ REPO_CACHE = [u \in Urls |-> NoResult]
    /\ tmpDb = EmptyDb
    /\ github = CHOOSE r \in Remotes : Len(r.tree) = 1
    /\ processed = 0
    /\ completed = {}
    /\ response = NoResponse

\* A cold container: nothing cached, no database file in /tmp.
HandlerInit ==
    /\ REPO_CACHE = [u \in Urls |-> NoResult]
    /\ tmpDb = EmptyDb
    /\ github \in Remotes
    /\ processed = 0
    /\ completed = {}
    /\ response = NoResponse

\* event.get('httpMethod') == 'OPTIONS'
Options ==
    /\ response' = Response("options", "", 200, "")
    /\ UNCHANGED <<REPO_CACHE, tmpDb, github, processed, completed>>

\* A body that json.loads rejects, or that is no JSON object: the exception
\* is raised inside the try.
UnparsableBody ==
    /\ \E e \in {"JSONDecodeError", "AttributeError"} :
          response' = Response("unparsable", "", 500, e)
    /\ UNCHANGED <<REPO_CACHE, tmpDb, github, processed, completed>>

\* action == "process" without repo_url
ProcessWithoutUrl ==
    /\ response' = Response("process", "", 400, "repo_url required")
    /\ UNCHANGED <<REPO_CACHE, tmpDb, github, processed, completed>>

\* A handler without the except clause: the ValueError leaves lambda_handler
\* and there is no response (not what the code does).
ProcessInvalidUrlRaises ==
    /\ \E u \in Urls :
          /\ ExtractRaises(u)
          /\ response' = Response("process", u, 0, "ValueError")
    /\ UNCHANGED <<REPO_CACHE, tmpDb, github, processed, completed>>

\* action == "process" with a URL extract_repo_info rejects: ValueError, 500
ProcessInvalidUrl ==
    /\ \E u \in Urls :
          /\ ExtractRaises(u)
          /\ response' = Response("process", u, 500, "ValueError")
    /\ UNCHANGED <<REPO_CACHE, tmpDb, github, processed, completed>>

\* A process request that stores whatever came of process_repository, also
\* when it raised (not what the code does).
ProcessCachesFailure ==
    \E u \in ValidUrls, env \in Envs :
       /\ processed < MaxProcess
       /\ LET out == process_repository(u, github, tmpDb, env) IN
            /\ tmpDb' = out.db
            /\ processed' = processed + 1
            /\ REPO_CACHE' = [REPO_CACHE EXCEPT ![u] = out.result]
            /\ IF out.raised
               THEN /\ response' = [Response("process", u, 500, "Exception") EXCEPT !.env = env]
                    /\ UNCHANGED completed
               ELSE /\ response' = [Response("process", u, 200, "Repository processed")
                                      EXCEPT !.env = env]
                    /\ completed' = completed \cup {u}
       /\ UNCHANGED github

\* action == "process": process_repository, then REPO_CACHE[repo_url] = result
Process ==
    \E u \in ValidUrls, env \in Envs :
       /\ processed < MaxProcess
       /\ LET out == process_repository(u, github, tmpDb, env) IN
            /\ tmpDb' = out.db
            /\ processed' = processed + 1
            /\ IF out.raised
               THEN /\ response' = [Response("process", u, 500, "Exception") EXCEPT !.env = env]
                    /\ UNCHANGED <<REPO_CACHE, completed>>
               ELSE /\ response' = [Response("process", u, 200, "Repository processed")
                                      EXCEPT !.env = env]
                    /\ REPO_CACHE' = [REPO_CACHE EXCEPT ![u] = out.result]
                    /\ completed' = completed \cup {u}
       /\ UNCHANGED github

\* What bedrock.invoke_model does for one call: a response with a text
\* segment, a response without one, or an exception of the transport.
Completions == {"text", "no_text", "transport_error"}

\* An ask that goes on without looking for the cached result: reading the
\* missing result raises (not what the code does).
AskUnchecked ==
    \E u \in Urls :
       /\ response' = Response("ask", u, 500, "TypeError")
       /\ UNCHANGED <<REPO_CACHE, tmpDb, github, processed, completed>>

\* action == "ask"
Ask ==
    \E u \in Urls, completion \in Completions :
       /\ IF REPO_CACHE[u] = NoResult
          THEN response' = Response("ask", u, 400, "Please analyze the repository first.")
          ELSE LET context == build_context(REPO_CACHE[u])
                   r == CASE completion = "text" -> Response("ask", u, 200, "answer")
                          [] completion = "no_text" -> Response("ask", u, 500, "KeyError")
                          [] OTHER -> Response("ask", u, 500, "ClientError")
               IN response' = [r EXCEPT !.context = context, !.invoked = 1,
                                        !.completion = completion]
       /\ UNCHANGED <<REPO_CACHE, tmpDb, github, processed, completed>>

\* action == "get_data"
GetData ==
    \E u \in Urls :
       /\ response' = IF REPO_CACHE[u] = NoResult
                      THEN Response("get_data", u, 404, "Repository not found")
                      ELSE Response("get_data", u, 200, "repo_data")
       /\ UNCHANGED <<REPO_CACHE, tmpDb, github, processed, completed>>

\* any other action
InvalidAction ==
    /\ response' = Response("other", "", 400, "Invalid action")
    /\ UNCHANGED <<REPO_CACHE, tmpDb, github, processed, completed>>

-----------------------------------------------------------------------------
(* query_symbols_by_name (lambda_function) and search_symbols_by_name          *)
(* (query_repo): the same SELECT with WHERE s.name LIKE '%' || pattern || '%'. *)

\* Symbol names and search patterns with their characters.
NameChars ==
    [n \in {"f", "C", "Fx", "a_b"} |->
        CASE n = "f" -> <<"f">>
          [] n = "C" -> <<"C">>
          [] n = "Fx" -> <<"F", "x">>
          [] OTHER -> <<"a", "_", "b">>]

QueryNames == DOMAIN NameChars

Patterns == {<<"f">>, <<"C">>, <<"x">>, <<"_">>, <<"a", "b">>, <<"a", "_", "b">>}

\* LIKE compares ASCII letters without regard to case.
LikeFold(c) ==
    CASE c = "F" -> "f" [] c = "C" -> "c" [] OTHER -> c

\* text LIKE pat: % matches any run of characters, _ any one character.
RECURSIVE Like(_, _)
Like(text, pat) ==
    IF pat = <<>> THEN text = <<>>
    ELSE IF Head(pat) = "%"
    THEN Like(text, Tail(pat)) \/ (text # <<>> /\ Like(Tail(text), pat))
    ELSE IF text = <<>> THEN FALSE
    ELSE IF Head(pat) = "_" THEN Like(Tail(text), Tail(pat))
    ELSE LikeFold(Head(text)) = LikeFold(Head(pat)) /\ Like(Tail(text), Tail(pat))

\* ORDER BY f.current_path
OrderByPath(rows) ==
    LET pairs == [i \in DOMAIN rows |->
                     [key |-> <<PathRank[rows[i].current_path]>>, row |-> rows[i]]]
        sorted == SortPairs(pairs)
    IN [i \in DOMAIN sorted |-> sorted[i].row]

\* query_symbols_by_name(conn, name_pattern)
query_symbols_by_name(syms, fls, pattern) ==
    OrderByPath(SelectSeq(JoinSymbolsFiles(syms, fls),
                          LAMBDA r : Like(NameChars[r.name], <<"%">> \o pattern \o <<"%">>)))

QueryIdle ==
    /\ name_pattern = <<>>
    /\ matched = <<>>

\* One symbol of a file reaches the store, as in the file loop of
\* process_repository: insert_file, then insert_symbol.  The rows an earlier
\* query returned are forgotten: they were those of the store before.
IndexSymbolStep ==
    \E p \in Paths, n \in QueryNames :
       /\ Len(symbols) < MaxSymbols
       /\ LET tbl == InsertOrIgnoreFile(files, p) IN
            /\ files' = tbl
            /\ symbols' = InsertSymbolRow(symbols, SelectFileId(tbl, p), "h1",
                              IF n \in {"C", "Fx"} THEN "class" ELSE "function", n, 1, 3)
       /\ name_pattern' = <<>>
       /\ matched' = <<>>
       /\ UNCHANGED <<commits, osCommits, firstCall, lastCall, returned, fileCalls, insertLog>>

QuerySymbolsStep ==
    \E pattern \in Patterns :
       /\ name_pattern' = pattern
       /\ matched' = query_symbols_by_name(symbols, files, pattern)
       /\ UNCHANGED storeVars

-----------------------------------------------------------------------------
(* The answer engines: the ask branch of lambda_handler, ask_claude of        *)
(* unified_query and ask_claude of test_query.  Each sends one prompt to      *)
(* bedrock.invoke_model and reads the text out of the JSON body.              *)

\* A block of result['content']: with a 'text' key or without one.
Blocks ==
    { [has_text |-> TRUE, text |-> <<"a">>],
      [has_text |-> TRUE, text |-> <<" ", "a">>],
      [has_text |-> FALSE, text |-> <<>>] }

\* What invoke_model delivers: an exception of the transport, or a JSON body
\* with or without the keys 'content' (a list of blocks) and 'completion'.
Body(failed, has_content, content, has_completion) ==
    [failed |-> failed, has_content |-> has_content, content |-> content,
     has_completion |-> has_completion]

TransportFailure == Body(TRUE, FALSE, <<>>, FALSE)

Bodies ==
    {TransportFailure}
      \cup {Body(FALSE, FALSE, <<>>, c) : c \in BOOLEAN}
      \cup {Body(FALSE, TRUE, content, c) :
               content \in {<<>>} \cup {<<b>> : b \in Blocks}
                              \cup {<<b1, b2>> : b1 \in Blocks, b2 \in Blocks},
               c \in BOOLEAN}

Questions == {"q1", "q2"}

\* The text of result['completion'].
CompletionText == <<"c">>

\* What an engine hands to its caller: an answer text, its fixed
\* placeholder, an error response built from the exception, or the exception
\* itself; with the number of invoke_model calls it made.
Outcome(kind, text, calls) == [kind |-> kind, text |-> text, calls |-> calls]

\* result['content'][0]['text'] raises KeyError or IndexError.
TextRaises(body) ==
    ~body.has_content \/ body.content = <<>> \/ ~body.content[1].has_text

\* lambda_handler, ask: no try around the call; the except of the handler
\* turns any exception into a 500 response carrying str(e).
LambdaAnswer(body) ==
    IF body.failed THEN Outcome("error_response", <<"C", "l", "i", "e", "n", "t">>, 1)
    ELSE IF TextRaises(body)
    THEN Outcome("error_response",
                 IF ~body.has_content THEN <<"'", "c", "o", "n", "t", "e", "n", "t", "'">>
                 ELSE IF body.content = <<>> THEN <<"l", "i", "s", "t">>
                 ELSE <<"'", "t", "e", "x", "t", "'">>, 1)
    ELSE Outcome("answer", body.content[1].text, 1)

\* unified_query.ask_claude: except Exception: return "Error generating response."
UnifiedAnswer(body) ==
    IF body.failed \/ TextRaises(body)
    THEN Outcome("placeholder", <<"E", "r", "r", "o", "r">>, 1)
    ELSE Outcome("answer", Strip(body.content[1].text), 1)

\* test_query.ask_claude: no try; content[0].get("text", ""), then
\* result["completion"], then the placeholder.
TestQueryAnswer(body) ==
    IF body.failed THEN Outcome("raised", <<>>, 1)
    ELSE IF body.has_content /\ body.content # <<>>
    THEN Outcome("answer",
                 IF body.content[1].has_text THEN body.content[1].text ELSE <<>>, 1)
    ELSE IF body.has_completion THEN Outcome("answer", CompletionText, 1)
    ELSE Outcome("placeholder", <<"U", "n", "a", "b", "l", "e">>, 1)

Asked(engine, question, body, outcome) ==
    [engine |-> engine, question |-> question, body |-> body, outcome |-> outcome]

AnswerIdle == asked = Asked("none", "", TransportFailure, Outcome("none", <<>>, 0))

AskLambda ==
    \E q \in Questions, body \in Bodies : asked' = Asked("lambda", q, body, LambdaAnswer(body))

AskUnified ==
    \E q \in Questions, body \in Bodies :
       asked' = Asked("unified_query", q, body, UnifiedAnswer(body))

AskTestQuery ==
    \E q \in Questions, body \in Bodies :
       asked' = Asked("test_query", q, body, TestQueryAnswer(body))

-----------------------------------------------------------------------------
(* The paginated fetch of the history: GitProcessor.fetch_commits and         *)
(* GitProcessor.fetch_pull_requests of processors/git_processor.py, and the   *)
(* one-request fetch_commits / fetch_pull_requests of the Lambda function.    *)

\* The caps on the accumulated list.
MAX_COMMITS == 50
MAX_PRS == 30

\* MAX_COMMITS_PER_PAGE / MAX_PRS_PER_PAGE: the page size of the
\* configuration, any of these.
PageSizes == {10, 20, 30, 50, 100}

Fetchers ==
    {"GitProcessor.fetch_commits", "GitProcessor.fetch_pull_requests",
     "lambda.fetch_commits", "lambda.fetch_pull_requests"}

Paginated == {"GitProcessor.fetch_commits", "GitProcessor.fetch_pull_requests"}

Cap(fetcher) ==
    IF fetcher \in {"GitProcessor.fetch_commits", "lambda.fetch_commits"}
    THEN MAX_COMMITS ELSE MAX_PRS

Min(a, b) == IF a < b THEN a ELSE b

\* 'per_page': MAX_COMMITS_PER_PAGE for every request.
PerPageFixed(page_size, cap, n) == page_size

\* 'per_page': min(MAX_COMMITS_PER_PAGE, MAX_COMMITS - len(commits))
PerPage(page_size, cap, n) == Min(page_size, cap - n)

\* The remote's page `page` of size per_page of a history of `total` items,
\* newest first; items are numbered 1..total.
ServerPage(total, page, per_page) ==
    LET first == (page - 1) * per_page + 1
        last == Min(page * per_page, total)
    IN  IF first > last THEN <<>> ELSE [k \in 1..(last - first + 1) |-> first + k - 1]

\* One request of the log: the page and size asked for, the number of items
\* returned, whether the transport failed, the length of the list after it.
Request(page, per_page, got, failed, held) ==
    [page |-> page, per_page |-> per_page, returned |-> got,
     failed |-> failed, held |-> held]

Fetch(fetcher, total, page_size, items, page, requests, pos) ==
    [fetcher |-> fetcher, total |-> total, page_size |-> page_size,
     items |-> items, page |-> page, requests |-> requests, pos |-> pos]

FetchIdle == fetch = Fetch("none", 0, 0, <<>>, 1, <<>>, "idle")

\* commits = []; page = 1
FetchStart ==
    \E fetcher \in Fetchers, total \in 0..MaxRemote, page_size \in PageSizes :
       /\ fetcher \notin Paginated => page_size = Cap(fetcher)
       /\ fetch = Fetch(fetcher, total, page_size, <<>>, 1, <<>>, "loop")

\* One turn of `while len(commits) < MAX_COMMITS:` of GitProcessor: the
\* request, the appends, the breaks.
GitProcessorFetchPage ==
    /\ fetch.pos = "loop"
    /\ fetch.fetcher \in Paginated
    /\ LET cap == Cap(fetch.fetcher)
           per_page == PerPage(fetch.page_size, cap, Len(fetch.items))
           page_items == ServerPage(fetch.total, fetch.page, per_page)
           items == fetch.items \o page_items
       IN  \E failed \in BOOLEAN :
              fetch' =
                 IF failed
                 THEN \* except requests.exceptions.RequestException: break
                      [fetch EXCEPT
                         !.requests = Append(@, Request(fetch.page, per_page, 0, TRUE,
                                                        Len(fetch.items))),
                         !.pos = "done"]
                 ELSE IF page_items = <<>>
                 THEN \* if not page_commits: break
                      [fetch EXCEPT
                         !.requests = Append(@, Request(fetch.page, per_page, 0, FALSE,
                                                        Len(fetch.items))),
                         !.pos = "done"]
                 ELSE [fetch EXCEPT
                         !.items = items,
                         !.page = @ + 1,
                         !.requests = Append(@, Request(fetch.page, per_page,
                                                        Len(page_items), FALSE,
                                                        Len(items))),
                         !.pos = IF Len(page_items) < fetch.page_size
                                    \/ ~(Len(items) < cap)
                                 THEN "done" ELSE "loop"]

\* fetch_commits / fetch_pull_requests of the Lambda function: one request
\* with per_page = the cap; github_api_request returns None on any
\* exception; data[:MAX_COMMITS].
LambdaFetch ==
    /\ fetch.pos = "loop"
    /\ fetch.fetcher \notin Paginated
    /\ LET cap == Cap(fetch.fetcher)
           page_data == ServerPage(fetch.total, 1, cap)
           items == SubSeq(page_data, 1, Min(cap, Len(page_data)))
       IN  \E failed \in BOOLEAN :
              fetch' =
                 IF failed
                 THEN [fetch EXCEPT
                         !.requests = Append(@, Request(1, cap, 0, TRUE, 0)),
                         !.pos = "done"]
                 ELSE [fetch EXCEPT
                         !.items = items,
                         !.requests = Append(@, Request(1, cap, Len(page_data), FALSE,
                                                        Len(items))),
                         !.pos = "done"]

-----------------------------------------------------------------------------
(* The OpenSearch query of test_query.py: search_all runs the same k-NN       *)
(* query on the indices git-commits and git-prs and pools the hits.           *)

Hit(id, score) == [_id |-> id, _score |-> score]

\* The hits one index returns for 'size': top_k: at most top_k, the i-th
\* document of the response numbered i, best score first.
Responses(top_k) ==
    UNION { { [i \in 1..n |-> Hit(i, scores[i])] :
                scores \in { f \in [1..n -> 1..MaxScore] :
                               \A i \in 1..n, j \in 1..n : i < j => f[i] >= f[j] } } :
            n \in 0..top_k }

\* for h in res.get("hits", {}).get("hits", []): hits.append((label, h))
Labelled(label, hits) == [i \in DOMAIN hits |-> <<label, hits[i]>>]

\* hits in the order of the two loops, unsorted.
PooledOrder(hits) == hits

\* One step of the sort: x goes behind the hits whose score is not lower.
InsertHit(sorted, x) ==
    LET p == Cardinality({i \in DOMAIN sorted : sorted[i][2]._score >= x[2]._score})
    IN  SubSeq(sorted, 1, p) \o <<x>> \o SubSeq(sorted, p + 1, Len(sorted))

\* hits.sort(key=lambda x: x[1]["_score"], reverse=True): stable, best first.
RECURSIVE SortHits(_)
SortHits(hits) ==
    IF hits = <<>> THEN <<>>
    ELSE InsertHit(SortHits(SubSeq(hits, 1, Len(hits) - 1)), hits[Len(hits)])

Search(top_k, res_commits, res_prs, failed, raised_out, hits) ==
    [top_k |-> top_k, res_commits |-> res_commits, res_prs |-> res_prs,
     failed |-> failed, raised |-> raised_out, hits |-> hits]

SearchIdle == search = Search(0, <<>>, <<>>, "idle", FALSE, <<>>)

\* A call of search_all(query, top_k) about to run, with what the two
\* indices will answer.
SearchStart ==
    \E top_k \in 1..MaxTopK :
       \E res_commits \in Responses(top_k), res_prs \in Responses(top_k) :
          search = Search(top_k, res_commits, res_prs, "pending", FALSE, <<>>)

\* search_all with both opensearch.search calls answered.
SearchAll ==
    /\ search.failed = "pending"
    /\ search' = [search EXCEPT
                    !.failed = "none",
                    !.hits = SortHits(Labelled("commit", search.res_commits)
                                         \o Labelled("pr", search.res_prs))]

\* search_all when a call fails: create_embedding is outside the try and
\* its exception leaves search_all; an exception of either
\* opensearch.search is caught and [] returned.
SearchAllFailed ==
    /\ search.failed = "pending"
    /\ \E failed \in {"embedding", "git-commits", "git-prs"} :
          search' = [search EXCEPT
                       !.failed = failed,
                       !.raised = (failed = "embedding"),
                       !.hits = <<>>]

-----------------------------------------------------------------------------
(* The pattern-based extractor of processors/code_parser.py:                  *)
(* parse_js_ts_with_regex and find_block_end.  A content is a sequence of     *)
(* characters or tokens; "\n" ends a line.                                    *)

Newline == "\n"

\* source_code.split('\n'): one more piece than there are newlines.
RECURSIVE SplitLines(_)
SplitLines(content) ==
    IF \A k \in DOMAIN content : content[k] # Newline
    THEN <<content>>
    ELSE LET p == CHOOSE k \in DOMAIN content :
                     /\ content[k] = Newline
                     /\ \A j \in 1..(k - 1) : content[j] # Newline
         IN  <<SubSeq(content, 1, p - 1)>>
                \o SplitLines(SubSeq(content, p + 1, Len(content)))

\* The two loops of find_block_end with the check made after every brace.
RECURSIVE ScanAnyBrace(_, _, _, _, _)
ScanAnyBrace(lines, i, c, brace_count, in_block) ==
    IF i >= Len(lines) THEN Len(lines)
    ELSE IF c > Len(lines[i + 1]) THEN ScanAnyBrace(lines, i + 1, 1, brace_count, in_block)
    ELSE IF lines[i + 1][c] = "{"
         THEN IF brace_count + 1 = 0 THEN i + 1
              ELSE ScanAnyBrace(lines, i, c + 1, brace_count + 1, TRUE)
    ELSE IF lines[i + 1][c] = "}"
         THEN IF in_block /\ brace_count - 1 = 0 THEN i + 1
              ELSE ScanAnyBrace(lines, i, c + 1, brace_count - 1, in_block)
    ELSE ScanAnyBrace(lines, i, c + 1, brace_count, in_block)

FindBlockEndAnyBrace(lines, start_idx) == ScanAnyBrace(lines, start_idx, 1, 0, FALSE)

\* for i in range(start_idx, len(lines)): for char in line: ... from line
\* index i (0-based), character c (1-based) on.
RECURSIVE ScanBraces(_, _, _, _, _)
ScanBraces(lines, i, c, brace_count, in_block) ==
    IF i >= Len(lines) THEN Len(lines)
    ELSE IF c > Len(lines[i + 1]) THEN ScanBraces(lines, i + 1, 1, brace_count, in_block)
    ELSE IF lines[i + 1][c] = "{"
         THEN ScanBraces(lines, i, c + 1, brace_count + 1, TRUE)
    ELSE IF lines[i + 1][c] = "}"
         THEN IF in_block /\ brace_count - 1 = 0 THEN i + 1
              ELSE ScanBraces(lines, i, c + 1, brace_count - 1, in_block)
    ELSE ScanBraces(lines, i, c + 1, brace_count, in_block)

find_block_end(lines, start_idx) == ScanBraces(lines, start_idx, 1, 0, FALSE)

BraceChars == {"{", "}", "x", Newline}

Contents(n) == UNION {[1..k -> BraceChars] : k \in 0..n}

Block(content, lines, start_idx, end_line, pos) ==
    [content |-> content, lines |-> lines, start_idx |-> start_idx,
     end_line |-> end_line, pos |-> pos]

BlockIdle == block = Block(<<>>, <<>>, 0, 0, "idle")

\* lines = source_code.split('\n'); a line of the content is the match line.
BlockStart ==
    \E content \in Contents(MaxBraceChars) :
       \E start_idx \in 0..(Len(SplitLines(content)) - 1) :
          block = Block(content, SplitLines(content), start_idx, 0, "start")

\* end_line = find_block_end(lines, i-1)
FindBlockEnd ==
    /\ block.pos = "start"
    /\ block' = [block EXCEPT
                   !.end_line = find_block_end(block.lines, block.start_idx),
                   !.pos = "done"]


\* A line of a JavaScript/TypeScript file is a sequence of tokens: words and
\* punctuation, the white space between them left out.
Words ==
    {"function", "class", "interface", "type", "enum", "catch", "p", "e", "f",
     "g", "x", "C", "H"}

IsWord(t) == t \in Words

Tok(line, p) == IF p \in DOMAIN line THEN line[p] ELSE "<end>"

\* \([^)]*\)\s*=> at token p: "(", tokens other than ")", ")", "=>".
ParenArrow(line, p) ==
    /\ Tok(line, p) = "("
    /\ \E q \in (p + 1)..Len(line) :
          /\ line[q] = ")"
          /\ \A r \in (p + 1)..(q - 1) : line[r] # ")"
          /\ Tok(line, q + 1) = "=>"

\* patterns['function'], in the order of the list, matched at token p.
FunctionMatchAt(k, line, p) ==
    CASE k = 1 -> Tok(line, p) = "function" /\ IsWord(Tok(line, p + 1))
                     /\ Tok(line, p + 2) = "("
      [] k = 2 -> IsWord(Tok(line, p)) /\ Tok(line, p + 1) = ":"
                     /\ Tok(line, p + 2) = "function" /\ Tok(line, p + 3) = "("
      [] k = 3 -> IsWord(Tok(line, p)) /\ Tok(line, p + 1) = "="
                     /\ Tok(line, p + 2) = "function" /\ Tok(line, p + 3) = "("
      [] k = 4 -> IsWord(Tok(line, p)) /\ Tok(line, p + 1) = "="
                     /\ ParenArrow(line, p + 2)
      [] k = 5 -> IsWord(Tok(line, p)) /\ ParenArrow(line, p + 1)

\* patterns['class'], in the order of the list, matched at token p.
ClassMatchAt(k, line, p) ==
    CASE k = 1 -> Tok(line, p) = "class" /\ IsWord(Tok(line, p + 1))
      [] k = 2 -> Tok(line, p) = "interface" /\ IsWord(Tok(line, p + 1))
      [] k = 3 -> Tok(line, p) = "type" /\ IsWord(Tok(line, p + 1))
                     /\ Tok(line, p + 2) = "="
      [] k = 4 -> Tok(line, p) = "enum" /\ IsWord(Tok(line, p + 1))

FunctionPatterns == 1..5

ClassPatterns == 1..4

LeastOf(S) == CHOOSE m \in S : \A n \in S : m <= n

\* re.search(pattern, line): the leftmost match, match.group(1).
FunctionMatches(k, line) == {p \in DOMAIN line : FunctionMatchAt(k, line, p)}

FunctionName(k, line) ==
    LET p == LeastOf(FunctionMatches(k, line))
    IN  IF k = 1 THEN line[p + 1] ELSE line[p]

ClassMatches(k, line) == {p \in DOMAIN line : ClassMatchAt(k, line, p)}

ClassName(k, line) == line[LeastOf(ClassMatches(k, line)) + 1]

RejectedNames == {"if", "for", "while", "switch", "catch"}

JsRecord(type, name, start_line, end_line, node_type) ==
    [type |-> type, name |-> name, start_line |-> start_line,
     end_line |-> end_line, node_type |-> node_type]

\* if not line_stripped or line_stripped.startswith('//') or
\* line_stripped.startswith('/*'): continue
Skipped(line) == line = <<>> \/ line[1] \in {"//", "/*"}

\* for pattern in patterns['function']: the first pattern that matches with
\* a name that is not rejected appends a record and breaks.
FunctionRecords(lines, i) ==
    LET line == lines[i]
        ks == {k \in FunctionPatterns :
                  /\ FunctionMatches(k, line) # {}
                  /\ FunctionName(k, line) \notin RejectedNames}
    IN  IF ks = {} THEN <<>>
        ELSE <<JsRecord("function", FunctionName(LeastOf(ks), line), i,
                        find_block_end(lines, i - 1), "function_declaration")>>

\* for pattern in patterns['class']: the first pattern that matches appends
\* a record and breaks; the type is read off the words of the line.
ClassRecords(lines, i) ==
    LET line == lines[i]
        ks == {k \in ClassPatterns : ClassMatches(k, line) # {}}
        entity_type ==
            IF \E p \in DOMAIN line : line[p] = "interface" THEN "interface"
            ELSE IF \E p \in DOMAIN line : line[p] = "type" THEN "type"
            ELSE IF \E p \in DOMAIN line : line[p] = "enum" THEN "enum"
            ELSE "class"
    IN  IF ks = {} THEN <<>>
        ELSE <<JsRecord(entity_type, ClassName(LeastOf(ks), line), i,
                        find_block_end(lines, i - 1), "class_declaration")>>

\* for i, line in enumerate(lines, 1): lines i..Len(lines).
RECURSIVE ExtractFrom(_, _)
ExtractFrom(lines, i) ==
    IF i > Len(lines) THEN <<>>
    ELSE (IF Skipped(lines[i]) THEN <<>>
          ELSE FunctionRecords(lines, i) \o ClassRecords(lines, i))
            \o ExtractFrom(lines, i + 1)

parse_js_ts_with_regex(source_code) == ExtractFrom(SplitLines(source_code), 1)

\* The lines the files are made of.
JsLines ==
    { <<>>,
      <<"//", "function", "f", "(", ")", "{">>,
      <<"function", "f", "(", ")", "{">>,
      <<"class", "C", "{">>,
      <<"type", "H", "=", "(", ")", "=>", "x">>,
      <<"}">>,
      <<"*", "function", "g", "(", ")", "{">>,
      <<"p", ".", "catch", "(", "(", "e", ")", "=>", "{">> }

\* The text of a file: its lines, each but the last followed by a newline,
\* the last one too when the file ends with a newline.
RECURSIVE JoinLines(_, _)
JoinLines(file_lines, final_newline) ==
    IF file_lines = <<>> THEN <<>>
    ELSE IF Len(file_lines) = 1
         THEN Head(file_lines) \o (IF final_newline THEN <<Newline>> ELSE <<>>)
    ELSE Head(file_lines) \o <<Newline>> \o JoinLines(Tail(file_lines), final_newline)

Js(content, extracted, pos) ==
    [content |-> content, extracted |-> extracted, pos |-> pos]

JsIdle == js = Js(<<>>, <<>>, "idle")

\* source_code = f.read()
JsStart ==
    \E n \in 0..MaxJsLines :
       \E file_lines \in [1..n -> JsLines], final_newline \in BOOLEAN :
          js = Js(JoinLines(file_lines, final_newline), <<>>, "start")

\* return parse_js_ts_with_regex(source_code, filepath, language)
ParseJsTs ==
    /\ js.pos = "start"
    /\ js' = [js EXCEPT !.extracted = parse_js_ts_with_regex(js.content),
                        !.pos = "done"]


-----------------------------------------------------------------------------
(* build_context on the snapshots of larger repositories: more files, names, *)
(* commits and pull requests, and longer texts, than it prints.               *)

\* The symbol dicts of a snapshot with nfiles files (numbered): the first
\* has nnames functions and nnames classes, each other one function and one
\* class, in the order of get_all_symbols.
SnapshotSymbols(nfiles, nnames) ==
    IF nfiles = 0 THEN <<>>
    ELSE [k \in 1..(2 * nnames + 2 * (nfiles - 1)) |->
            LET j == IF k <= 2 * nnames THEN 1 ELSE 2 + ((k - 2 * nnames - 1) \div 2)
                r == IF k <= 2 * nnames THEN k ELSE k - 2 * nnames
            IN [file |-> j, kind |-> IF r % 2 = 1 THEN "function" ELSE "class",
                name |-> (r + 1) \div 2, start_line |-> r, end_line |-> r]]

TextOf(n) == [k \in 1..n |-> "c"]

Snapshot(details, nfiles, nnames, ncommits, nprs, nchars) ==
    [repo |-> "o/r", details |-> details,
     commits |-> [i \in 1..ncommits |->
                     [sha |-> i, message |-> TextOf(nchars), author |-> "alice",
                      email |-> "a@x", date |-> i]],
     prs |-> [i \in 1..nprs |->
                 [number |-> i, title |-> TextOf(nchars), state |-> "open",
                  user |-> "alice", created_at |-> i]],
     symbols |-> Prefix(SnapshotSymbols(nfiles, nnames), SymbolLimit),
     file_stats |-> [j \in 1..nfiles |->
                        [file |-> j, functions |-> IF j = 1 THEN nnames ELSE 1,
                         classes |-> IF j = 1 THEN nnames ELSE 1]],
     stats |-> [commits_count |-> ncommits, prs_count |-> nprs,
                functions_count |-> Len(SnapshotSymbols(nfiles, nnames)) \div 2,
                classes_count |-> Len(SnapshotSymbols(nfiles, nnames)) \div 2,
                files_count |-> nfiles],
     warning |-> ""]

Ctx(repo_data, context, pos) == [repo_data |-> repo_data, context |-> context, pos |-> pos]

CtxIdle == ctx = Ctx(NoResult, <<>>, "idle")

\* repo_data = REPO_CACHE.get(repo_url)
CtxStart ==
    \E details \in {NoDetails, Details("d", "Python", 1, 1)},
       nfiles \in 0..MaxCtxFiles, nnames \in 1..MaxCtxNames,
       ncommits \in 0..MaxCtxItems, nprs \in {0, MaxCtxItems},
       nchars \in {1, MaxCtxChars - 1, MaxCtxChars} :
       ctx = Ctx(Snapshot(details, nfiles, nnames, ncommits, nprs, nchars), <<>>, "start")

\* context = build_context(repo_data, text)
BuildContext ==
    /\ ctx.pos = "start"
    /\ ctx' = [ctx EXCEPT !.context = build_context(ctx.repo_data), !.pos = "done"]

TextIdle == BlockIdle /\ JsIdle /\ CtxIdle

-----------------------------------------------------------------------------
(* Specifications *)

Init == StoreInit /\ ParseIdle /\ RunIdle /\ IndexIdle /\ HandlerIdle /\ QueryIdle /\ AnswerIdle /\ FetchIdle /\ SearchIdle /\ TextIdle

Next ==
    \/ InsertCommitStep /\ UNCHANGED <<parseVars, runVars, indexVars, handlerVars, queryVars, asked, fetch, search, textVars>>
    \/ InsertFileStep /\ UNCHANGED <<parseVars, runVars, indexVars, handlerVars, queryVars, asked, fetch, search, textVars>>
    \/ InsertSymbolStep /\ UNCHANGED <<parseVars, runVars, indexVars, handlerVars, queryVars, asked, fetch, search, textVars>>

Spec == Init /\ [][Next]_vars

NextCommits ==
    \/ InsertCommitStep /\ UNCHANGED <<parseVars, runVars, indexVars, handlerVars, queryVars, asked, fetch, search, textVars>>
    \/ IndexInsertCommitStep /\ UNCHANGED <<parseVars, runVars, indexVars, handlerVars, queryVars, asked, fetch, search, textVars>>
    \/ StoreCommitStep /\ UNCHANGED <<parseVars, runVars, indexVars, handlerVars, queryVars, asked, fetch, search, textVars>>

SpecCommits == Init /\ [][NextCommits]_vars

InitParse == StoreInit /\ ParseInit /\ RunIdle /\ IndexIdle /\ HandlerIdle /\ QueryIdle /\ AnswerIdle /\ FetchIdle /\ SearchIdle /\ TextIdle

NextParse ==
    \/ ParseFile /\ UNCHANGED <<storeVars, runVars, indexVars, handlerVars, queryVars, asked, fetch, search, textVars>>
    \/ ParseCodeFile /\ UNCHANGED <<storeVars, runVars, indexVars, handlerVars, queryVars, asked, fetch, search, textVars>>
    \/ ParseSymbols /\ UNCHANGED <<storeVars, runVars, indexVars, handlerVars, queryVars, asked, fetch, search, textVars>>

SpecParse == InitParse /\ [][NextParse]_vars

InitRun == StoreInit /\ ParseIdle /\ RunInit /\ IndexIdle /\ HandlerIdle /\ QueryIdle /\ AnswerIdle /\ FetchIdle /\ SearchIdle /\ TextIdle

NextRun ==
    \/ LambdaFileStep /\ UNCHANGED <<parseVars, indexVars, handlerVars, queryVars, asked, fetch, search, textVars>>
    \/ ParserFileStep /\ UNCHANGED <<parseVars, indexVars, handlerVars, queryVars, asked, fetch, search, textVars>>

SpecRun == InitRun /\ [][NextRun]_vars

InitIndex == StoreInit /\ ParseIdle /\ RunIdle /\ IndexInit /\ HandlerIdle /\ QueryIdle /\ AnswerIdle /\ FetchIdle /\ SearchIdle /\ TextIdle

NextIndex ==
    \/ WriteData /\ UNCHANGED <<storeVars, parseVars, runVars, handlerVars, queryVars, asked, fetch, search, textVars>>
    \/ GenerateEmbeddings /\ UNCHANGED <<storeVars, parseVars, runVars, handlerVars, queryVars, asked, fetch, search, textVars>>
    \/ build_faiss_index /\ UNCHANGED <<storeVars, parseVars, runVars, handlerVars, queryVars, asked, fetch, search, textVars>>
    \/ QueryIndex /\ UNCHANGED <<storeVars, parseVars, runVars, handlerVars, queryVars, asked, fetch, search, textVars>>

SpecIndex == InitIndex /\ [][NextIndex]_vars

InitHandler == StoreInit /\ ParseIdle /\ RunIdle /\ IndexIdle /\ HandlerInit /\ QueryIdle /\ AnswerIdle /\ FetchIdle /\ SearchIdle /\ TextIdle

NextHandler ==
    \/ Options /\ UNCHANGED <<storeVars, parseVars, runVars, indexVars, queryVars, asked, fetch, search, textVars>>
    \/ UnparsableBody /\ UNCHANGED <<storeVars, parseVars, runVars, indexVars, queryVars, asked, fetch, search, textVars>>
    \/ ProcessWithoutUrl /\ UNCHANGED <<storeVars, parseVars, runVars, indexVars, queryVars, asked, fetch, search, textVars>>
    \/ ProcessInvalidUrl /\ UNCHANGED <<storeVars, parseVars, runVars, indexVars, queryVars, asked, fetch, search, textVars>>
    \/ Process /\ UNCHANGED <<storeVars, parseVars, runVars, indexVars, queryVars, asked, fetch, search, textVars>>
    \/ Ask /\ UNCHANGED <<storeVars, parseVars, runVars, indexVars, queryVars, asked, fetch, search, textVars>>
    \/ GetData /\ UNCHANGED <<storeVars, parseVars, runVars, indexVars, queryVars, asked, fetch, search, textVars>>
    \/ InvalidAction /\ UNCHANGED <<storeVars, parseVars, runVars, indexVars, queryVars, asked, fetch, search, textVars>>

SpecHandler == InitHandler /\ [][NextHandler]_vars

InitQuery == StoreInit /\ ParseIdle /\ RunIdle /\ IndexIdle /\ HandlerIdle /\ QueryIdle /\ AnswerIdle /\ FetchIdle /\ SearchIdle /\ TextIdle

NextQuery ==
    \/ IndexSymbolStep /\ UNCHANGED <<parseVars, runVars, indexVars, handlerVars, asked, fetch, search, textVars>>
    \/ QuerySymbolsStep /\ UNCHANGED <<parseVars, runVars, indexVars, handlerVars, asked, fetch, search, textVars>>

SpecQuery == InitQuery /\ [][NextQuery]_vars

InitAnswer ==
    StoreInit /\ ParseIdle /\ RunIdle /\ IndexIdle /\ HandlerIdle /\ QueryIdle /\ AnswerIdle /\ FetchIdle /\ SearchIdle /\ TextIdle

NextAnswer ==
    \/ AskLambda /\ UNCHANGED <<storeVars, parseVars, runVars, indexVars, handlerVars, queryVars, fetch, search, textVars>>
    \/ AskUnified /\ UNCHANGED <<storeVars, parseVars, runVars, indexVars, handlerVars, queryVars, fetch, search, textVars>>
    \/ AskTestQuery /\ UNCHANGED <<storeVars, parseVars, runVars, indexVars, handlerVars, queryVars, fetch, search, textVars>>

SpecAnswer == InitAnswer /\ [][NextAnswer]_vars

InitFetch ==
    /\ StoreInit /\ ParseIdle /\ RunIdle /\ IndexIdle /\ HandlerIdle /\ QueryIdle
    /\ AnswerIdle /\ FetchStart /\ SearchIdle /\ TextIdle

NextFetch ==
    \/ GitProcessorFetchPage /\ UNCHANGED <<storeVars, parseVars, runVars, indexVars, handlerVars, queryVars, asked, search, textVars>>
    \/ LambdaFetch /\ UNCHANGED <<storeVars, parseVars, runVars, indexVars, handlerVars, queryVars, asked, search, textVars>>

SpecFetch == InitFetch /\ [][NextFetch]_vars

InitSearch ==
    /\ StoreInit /\ ParseIdle /\ RunIdle /\ IndexIdle /\ HandlerIdle /\ QueryIdle
    /\ AnswerIdle /\ FetchIdle /\ SearchStart /\ TextIdle

NextSearch ==
    \/ SearchAll /\ UNCHANGED <<storeVars, parseVars, runVars, indexVars, handlerVars, queryVars, asked, fetch, textVars>>
    \/ SearchAllFailed /\ UNCHANGED <<storeVars, parseVars, runVars, indexVars, handlerVars, queryVars, asked, fetch, textVars>>

SpecSearch == InitSearch /\ [][NextSearch]_vars

InitBlockEnd ==
    /\ StoreInit /\ ParseIdle /\ RunIdle /\ IndexIdle /\ HandlerIdle /\ QueryIdle
    /\ AnswerIdle /\ FetchIdle /\ SearchIdle /\ BlockStart /\ JsIdle /\ CtxIdle

NextBlockEnd ==
    \/ FindBlockEnd /\ UNCHANGED <<storeVars, parseVars, runVars, indexVars, handlerVars, queryVars, asked, fetch, search, js, ctx>>

SpecBlockEnd == InitBlockEnd /\ [][NextBlockEnd]_vars

InitRegex ==
    /\ StoreInit /\ ParseIdle /\ RunIdle /\ IndexIdle /\ HandlerIdle /\ QueryIdle
    /\ AnswerIdle /\ FetchIdle /\ SearchIdle /\ BlockIdle /\ JsStart /\ CtxIdle

NextRegex ==
    \/ ParseJsTs /\ UNCHANGED <<storeVars, parseVars, runVars, indexVars, handlerVars, queryVars, asked, fetch, search, block, ctx>>

SpecRegex == InitRegex /\ [][NextRegex]_vars

InitContext ==
    /\ StoreInit /\ ParseIdle /\ RunIdle /\ IndexIdle /\ HandlerIdle /\ QueryIdle
    /\ AnswerIdle /\ FetchIdle /\ SearchIdle /\ BlockIdle /\ JsIdle /\ CtxStart

NextContext ==
    \/ BuildContext /\ UNCHANGED <<storeVars, parseVars, runVars, indexVars, handlerVars, queryVars, asked, fetch, search, block, js>>

SpecContext == InitContext /\ [][NextContext]_vars

-----------------------------------------------------------------------------
(* Claims about the store *)

RowsFor(tbl, sha) == SelectSeq(tbl, LAMBDA r : r.commit_sha = sha)

DocsFor(index, id) == SelectSeq(index, LAMBDA d : d.id = id)

\* C1: after any sequence of upsertCommit calls (insert_commit of the Lambda,
\* insert_commit of index_repo, store_commit), a store holds exactly one record
\* per hash it was called with and none for the others, and that record carries
\* the author, email, message and timestamp of the first call with that hash.
C1_FirstWriterWins ==
    \A h \in Hashes :
        /\ RowsFor(commits, h) =
              IF firstCall[<<"sqlite", h>>] = NoRow THEN <<>>
              ELSE <<firstCall[<<"sqlite", h>>]>>
        /\ DocsFor(osCommits, h) =
              IF firstCall[<<"opensearch", h>>] = NoRow THEN <<>>
              ELSE <<[id |-> h, doc |-> firstCall[<<"opensearch", h>>]]>>

\* C1 witness: in both stores a hash was upserted again with other fields,
\* and the SQLite table holds rows of two hashes.
C1_Witness ==
    /\ \E h \in Hashes : /\ firstCall[<<"sqlite", h>>] # NoRow
                         /\ lastCall[<<"sqlite", h>>] # firstCall[<<"sqlite", h>>]
    /\ \E h \in Hashes : /\ firstCall[<<"opensearch", h>>] # NoRow
                         /\ lastCall[<<"opensearch", h>>] # firstCall[<<"opensearch", h>>]
    /\ Len(commits) = Cardinality(Hashes)

\* C2: insert_file returns one id per path, the same on every call whatever
\* other inserts happen in between; different paths get different ids; and a
\* path has one file row once insert_file ran for it, however often it ran.
C2_StableFileId ==
    /\ \A p \in Paths :
         /\ Cardinality(returned[p]) = (IF fileCalls[p] = 0 THEN 0 ELSE 1)
         /\ Len(SelectSeq(files, LAMBDA f : f.current_path = p)) =
               (IF fileCalls[p] = 0 THEN 0 ELSE 1)
         /\ \A f \in Range(files) : f.current_path = p => returned[p] = {f.file_id}
    /\ \A p, q \in Paths : p # q => returned[p] \cap returned[q] = {}

\* C2 witness: insert_file ran more than once for a path, with both paths,
\* a commit and a symbol stored.
C2_Witness ==
    /\ \E p \in Paths : fileCalls[p] = 2
    /\ \A p \in Paths : returned[p] # {}
    /\ commits # <<>>
    /\ symbols # <<>>

LogRow(path, e) ==
    [current_path |-> path, kind |-> e.kind, name |-> e.name,
     start_line |-> e.start_line, end_line |-> e.end_line]

\* C3: get_all_symbols returns, for every file of the store, exactly as many
\* records as insert_symbol calls completed for that file (each (kind, name,
\* span) as often as it was inserted, duplicates included), nothing else, and
\* in the order of file path, then start line.
C3_RoundTrip ==
    LET rows == get_all_symbols IN
    /\ \A f \in Range(files) :
         /\ Cardinality({i \in DOMAIN rows : rows[i].current_path = f.current_path})
              = Cardinality({i \in DOMAIN insertLog : insertLog[i].file_id = f.file_id})
         /\ \A i \in DOMAIN insertLog :
              insertLog[i].file_id = f.file_id =>
                CountIn(rows, LogRow(f.current_path, insertLog[i]))
                  = Cardinality({j \in DOMAIN insertLog :
                                   /\ insertLog[j].file_id = f.file_id
                                   /\ LogRow(f.current_path, insertLog[j])
                                        = LogRow(f.current_path, insertLog[i])})
    /\ \A i \in DOMAIN rows : \E f \in Range(files) : f.current_path = rows[i].current_path
    /\ \A i, j \in DOMAIN rows :
         i < j => \/ PathRank[rows[i].current_path] < PathRank[rows[j].current_path]
                  \/ /\ rows[i].current_path = rows[j].current_path
                     /\ rows[i].start_line <= rows[j].start_line

\* C3 witness: the same symbol was inserted twice for one (file, commit) and
\* both copies are read back.
C3_Witness ==
    /\ Len(insertLog) = 2
    /\ insertLog[1] = insertLog[2]
    /\ \E f \in Range(files) : f.file_id = insertLog[1].file_id
    /\ Len(get_all_symbols) = 2

\* C3 second case: two files, rows inserted against the path order.
C3_OrderCase ==
    /\ Len(files) = 2
    /\ Len(symbols) = 2
    /\ PathRank[files[1].current_path] > PathRank[files[2].current_path]
    /\ symbols[1].file_id = files[1].file_id
    /\ symbols[2].file_id = files[2].file_id

-----------------------------------------------------------------------------
(* Claims about the extractors *)

Extracted == extractor # "none"

WellFormed(f) == f.ext = ".py" /\ ~f.broken

KindName(node) == IF node.kind = "class" THEN "class" ELSE "function"

\* The positions of result that report definition i of the source file.
RecordsOf(i) ==
    {k \in DOMAIN result :
        /\ result[k].kind = KindName(src.defs[i])
        /\ result[k].name = NameOf(src.defs[i].kind)
        /\ result[k].end_line = EndLine(src.defs, i)
        /\ result[k].start_line \in {FirstLine(src.defs, i), KeywordLine(src.defs, i)}}

\* C4: for every well-formed Python file, the extractor returns each function
\* and class definition (top-level or nested, plain, decorated or async)
\* exactly once, and every record has 1 <= start <= end <= lines of the file.
C4_EveryDefinitionOnce ==
    (Extracted /\ WellFormed(src)) =>
        /\ Len(result) = Len(src.defs)
        /\ \A i \in DOMAIN src.defs : Cardinality(RecordsOf(i)) = 1
        /\ \A k \in DOMAIN result :
             /\ 1 <= result[k].start_line
             /\ result[k].start_line <= result[k].end_line
             /\ result[k].end_line <= LineCount(src)

\* C5: a decorated function or class is reported from the line of its first
\* decorator; a.py (f on lines 1-3) yields exactly (function, f, 1, 3) and
\* b.py (C decorated on line 1, ending on line 5) exactly (class, C, 1, 5).
C5_DecoratorStart ==
    (Extracted /\ WellFormed(src)) =>
        /\ \A i \in DOMAIN src.defs :
             src.defs[i].decorators > 0 =>
                \A k \in RecordsOf(i) : result[k].start_line = FirstLine(src.defs, i)
        /\ src = AFile => result = <<Symbol("function", "f", 1, 3)>>
        /\ src = BFile => result = <<Symbol("class", "C", 1, 5)>>

\* C6: extracting from a Python file with a syntax error returns the empty
\* sequence and does not raise.
C6_SyntaxErrorEmpty ==
    (Extracted /\ src.ext = ".py" /\ src.broken) => (result = <<>> /\ ~raised)

-----------------------------------------------------------------------------
(* Claims about the indexing run *)

\* A file the run can read and parse.
Parseable(entry) == entry.readable /\ WellFormed(entry.file)

FileFails(entry) == ~entry.readable \/ (entry.file.ext = ".py" /\ entry.file.broken)

PathRow(path, sym) ==
    [current_path |-> path, kind |-> sym.kind, name |-> sym.name,
     start_line |-> sym.start_line, end_line |-> sym.end_line]

-----------------------------------------------------------------------------
(* Claims about retrieval *)

\* The payload items that generate_embeddings gives a vector.
Embeddable == SelectSeq(data, HasValidText)

\* The vectors generate_embeddings may store for an item: its embedding, or
\* the zero vector that stands in for it when the embedding call failed.
VectorsOf(item) == {Embed(item.text), ZeroVector}

\* The result slots whose label is a position of the payload list.
InPayload(labels) == {s \in DOMAIN labels : labels[s] >= 0 /\ labels[s] < Len(data)}

Searched == ret.op = "query" /\ ret.error \notin {"FileNotFoundError", "ServiceError"}

\* C8: when the index holds one vector per embeddable payload item and a
\* query asks for more results than the index holds vectors, query_index
\* returns without error and its results are those items, each exactly once.
C8_TopKBeyondIndex ==
    (/\ Searched
     /\ Len(indexFile.vectors) = Len(Embeddable)
     /\ ret.top_k > Len(indexFile.vectors))
    => /\ ret.error = ""
       /\ Len(ret.results) = Len(Embeddable)
       /\ \A item \in Range(Embeddable) : CountIn(ret.results, item) = 1

\* C9: the items and distances query_index returns have equal length and
\* are aligned: one item per result slot whose label lies inside the payload
\* list, the i-th distance being the distance from the query to the i-th
\* item's vector, in non-decreasing order.
C9_ItemsAlignDistances ==
    (ret.op = "query" /\ ret.error = "")
    => /\ Len(ret.results) = Len(ret.distances)
       /\ Len(ret.results) = Cardinality(InPayload(ret.labels))
       /\ \A i \in DOMAIN ret.results :
             /\ i \in DOMAIN ret.distances
             /\ \E v \in VectorsOf(ret.results[i]) :
                   ret.distances[i] = L2(Embed(ret.query), v)
             /\ i > 1 => ret.distances[i - 1] <= ret.distances[i]

\* C10: the vectors generate_embeddings persists are as many as the items
\* of the payload list it read, and vector i is the vector of item i.
C10_VectorsAlignPayload ==
    (ret.op = "generate" /\ embFile.present)
    => /\ Len(embFile.vectors) = Len(data)
       /\ \A i \in DOMAIN embFile.vectors :
             i \in DOMAIN data => embFile.vectors[i] \in VectorsOf(data[i])

-----------------------------------------------------------------------------
(* Claims about the Lambda handler *)

\* The result of the same request in a container that has no database file
\* of the repository yet.
FirstRunResult == process_repository(response.repo_url, github, EmptyDb, response.env).result

ProcessedOk == response.action = "process" /\ response.statusCode = 200

\* C11: when a repository is processed again, the snapshot cached for it is
\* the one a first processing of the unchanged repository yields: symbol
\* list, file statistics and counts hold nothing of the earlier run.
C11_SnapshotReplaced ==
    (ProcessedOk /\ processed >= 2) => REPO_CACHE[response.repo_url] = FirstRunResult

\* The snapshot the last ask request built its context from.
AskedSnapshot == REPO_CACHE[response.repo_url]

ContextBuilt == response.action = "ask" /\ response.invoked = 1

PartLines(part) == SelectSeq(response.context, LAMBDA l : l.part = part)

\* A part is present with its heading first and at least one line under it,
\* or has no line at all.
PartPresent(part, label) ==
    /\ Len(PartLines(part)) >= 2
    /\ PartLines(part)[1].heading /\ PartLines(part)[1].label = label
    /\ \A i \in 2 .. Len(PartLines(part)) : ~PartLines(part)[i].heading

PartOmitted(part, label) ==
    /\ PartLines(part) = <<>>
    /\ \A i \in DOMAIN response.context :
          response.context[i].heading => response.context[i].label # label

\* C12: the context build_context returns has the code structure, commits
\* and pull request parts exactly when the snapshot has at least one symbol,
\* commit or PR; a part without data has no line and no heading.
C12_EmptySectionsOmitted ==
    ContextBuilt =>
       /\ IF AskedSnapshot.symbols # <<>>
          THEN PartPresent("structure", "Code Structure:")
          ELSE PartOmitted("structure", "Code Structure:")
       /\ IF AskedSnapshot.commits # <<>>
          THEN PartPresent("commits", "Recent Commits:")
          ELSE PartOmitted("commits", "Recent Commits:")
       /\ IF AskedSnapshot.prs # <<>>
          THEN PartPresent("prs", "Recent Pull Requests:")
          ELSE PartOmitted("prs", "Recent Pull Requests:")

\* A context was built from a snapshot with symbols and commits and no PR.
C12_Witness ==
    /\ ContextBuilt
    /\ AskedSnapshot.prs = <<>>
    /\ AskedSnapshot.symbols # <<>>
    /\ AskedSnapshot.commits # <<>>
    /\ PartOmitted("prs", "Recent Pull Requests:")

\* C13: an ask or get_data request for a repo_url without a successful
\* process request before it gets the guidance message with status 400 (ask)
\* or "Repository not found" with status 404 (get_data), never status 500,
\* and makes no call to the completion service.
C13_NotYetAvailable ==
    (response.action \in {"ask", "get_data"} /\ response.repo_url \notin completed) =>
       /\ response.statusCode = IF response.action = "ask" THEN 400 ELSE 404
       /\ response.body = IF response.action = "ask"
                          THEN "Please analyze the repository first."
                          ELSE "Repository not found"
       /\ response.invoked = 0

\* An ask for a spelling of the URL that was not processed, after the
\* repository was processed under its other spelling.
C13_Witness ==
    /\ response.action = "ask"
    /\ response.repo_url \in ValidUrls \ completed
    /\ completed # {}
    /\ response.statusCode = 400
    /\ response.invoked = 0

\* The files of the working copy that the run opened and parsed.
Crawled ==
    {k \in DOMAIN github.tree :
        github.tree[k].file.ext \in SUPPORTED_EXTENSIONS /\ github.tree[k].readable}

RowsOfFile(rows, path) == SelectSeq(rows, LAMBDA r : r.file = path)

SymbolsOfPath(db, path, kind) ==
    Cardinality({k \in DOMAIN db.symbols :
        /\ db.symbols[k].kind = kind
        /\ \E i \in DOMAIN db.files :
              /\ db.files[i].current_path = path
              /\ db.files[i].file_id = db.symbols[k].file_id})

CleanRun == ProcessedOk /\ response.env.git = "ok" /\ response.env.fault = NoFault

\* C15: after a run in which no insert failed, the file statistics hold
\* exactly one row per crawled file, a file without symbols included with
\* counts (0, 0); each row carries the file's function and class counts, and
\* the rows are in non-increasing order of functions + classes.
C15_FileStatistics ==
    CleanRun =>
       LET file_stats == REPO_CACHE[response.repo_url].file_stats IN
       /\ \A k \in Crawled : Len(RowsOfFile(file_stats, github.tree[k].path)) = 1
       /\ \A i \in DOMAIN file_stats :
             /\ file_stats[i].functions = SymbolsOfPath(tmpDb, file_stats[i].file, "function")
             /\ file_stats[i].classes = SymbolsOfPath(tmpDb, file_stats[i].file, "class")
             /\ i > 1 => file_stats[i - 1].functions + file_stats[i - 1].classes
                           >= file_stats[i].functions + file_stats[i].classes

\* The symbols of the crawled file k that the run had to insert: all of
\* them but the one whose insert raised, none when the insert of the file
\* itself raised.
DueSymbols(k) ==
    LET entry == github.tree[k]
        found == parse_file(entry.file)
        fault == response.env.fault
    IN IF fault.table = "files" /\ fault.key = entry.path THEN {}
       ELSE {i \in DOMAIN found :
                ~(fault.table = "symbols" /\ fault.key = entry.path /\ fault.at = i)}

StoredSymbol(db, path, sym) ==
    \E k \in DOMAIN db.symbols :
       /\ db.symbols[k].kind = sym.kind /\ db.symbols[k].name = sym.name
       /\ db.symbols[k].start_line = sym.start_line /\ db.symbols[k].end_line = sym.end_line
       /\ \E i \in DOMAIN db.files :
             /\ db.files[i].current_path = path
             /\ db.files[i].file_id = db.symbols[k].file_id

\* C16: a process request whose clone succeeded completes with status 200
\* also when one insert raises, and the database then holds every fetched
\* commit and every symbol of every crawled file except the one record whose
\* insert raised.
C16_InsertFailureSkipsOneRecord ==
    (response.action = "process" /\ response.repo_url \in ValidUrls
        /\ response.env.git = "ok") =>
       /\ response.statusCode = 200
       /\ \A i \in DOMAIN fetch_commits(github, response.env) :
             LET c == fetch_commits(github, response.env)[i] IN
             (response.env.fault.table = "commits" /\ response.env.fault.key = c.sha)
                \/ HasCommit(tmpDb.commits, c.sha)
       /\ \A k \in Crawled : \A i \in DueSymbols(k) :
             StoredSymbol(tmpDb, github.tree[k].path, parse_file(github.tree[k].file)[i])

-----------------------------------------------------------------------------
(* Claims about the name query *)

\* pat occurs in text as a run of consecutive characters.
Contains(text, pat) ==
    \E i \in 0 .. Len(text) - Len(pat) : SubSeq(text, i + 1, i + Len(pat)) = pat

\* The stored symbols, with their paths, whose name contains the pattern.
Containing(pattern) ==
    SelectSeq(JoinSymbolsFiles(symbols, files),
              LAMBDA r : Contains(NameChars[r.name], pattern))

\* C14: query_symbols_by_name(pattern) returns exactly the stored symbols
\* whose name contains pattern as a substring, each as often as it is
\* stored, in ascending order of the file path.
C14_FindSymbolsByName ==
    name_pattern # <<>> =>
       /\ \A i \in DOMAIN matched :
             CountIn(matched, matched[i]) = CountIn(Containing(name_pattern), matched[i])
       /\ \A i \in DOMAIN Containing(name_pattern) :
             CountIn(matched, Containing(name_pattern)[i])
                = CountIn(Containing(name_pattern), Containing(name_pattern)[i])
       /\ \A i \in DOMAIN matched :
             i > 1 => PathRank[matched[i - 1].current_path] <= PathRank[matched[i].current_path]

\* After indexing a.py (function f) and b.py (class C), the query for "f"
\* returns exactly one row, of a.py.
C14_E2E ==
    (/\ name_pattern = <<"f">>
     /\ Len(symbols) = 2
     /\ \E i, j \in DOMAIN JoinSymbolsFiles(symbols, files) :
           /\ JoinSymbolsFiles(symbols, files)[i].current_path = "a.py"
           /\ JoinSymbolsFiles(symbols, files)[i].name = "f"
           /\ JoinSymbolsFiles(symbols, files)[j].current_path = "b.py"
           /\ JoinSymbolsFiles(symbols, files)[j].name = "C")
    => (Len(matched) = 1 /\ matched[1].current_path = "a.py" /\ matched[1].name = "f")

-----------------------------------------------------------------------------
(* Claims about the answer engines *)

\* The response arrived and holds no text segment: no 'content', an empty
\* 'content', or a first block without 'text'; and no 'completion' either.
Unrecognized(body) ==
    /\ ~body.failed
    /\ TextRaises(body)
    /\ ~body.has_completion

\* The completion service was invoked exactly once for the question.
C17_InvokedOnce == asked.engine # "none" => asked.outcome.calls = 1

\* unified_query.ask_claude alone does return its placeholder.
C17_UnifiedOnly ==
    (asked.engine = "unified_query" /\ Unrecognized(asked.body))
       => asked.outcome.kind = "placeholder"

\* C17: the answer engine invokes the completion service exactly once per
\* question and, when the response has no recognizable text segment, returns
\* a fixed placeholder string to the caller instead of raising.
C17_PlaceholderOnUnrecognized ==
    asked.engine # "none" =>
       /\ asked.outcome.calls = 1
       /\ Unrecognized(asked.body) => asked.outcome.kind = "placeholder"

\* The caller can tell the outcome from an answer: an exception, or an
\* error response.
ExplicitFailure(outcome) == outcome.kind \in {"raised", "error_response"}

\* No engine calls the completion service again after a failure.
C18_NotRetried == asked.body.failed /\ asked.engine # "none" => asked.outcome.calls = 1

\* C18: a transport failure of a call to the completion service is surfaced
\* to the caller as an explicit failure, distinguishable from a normal
\* answer, and the call is not retried.
C18_TransportFailureExplicit ==
    (asked.engine # "none" /\ asked.body.failed) =>
       /\ ExplicitFailure(asked.outcome)
       /\ asked.outcome.calls = 1

-----------------------------------------------------------------------------
(* Claims about the paginated fetch *)

\* After request r the fetch goes on: the page came back as full as it was
\* asked for and the list is still below the cap.
GoesOn(r) == r.returned = r.per_page /\ r.held < Cap(fetch.fetcher)

\* A fetch whose first request failed returns something else than a fetch
\* of an empty history, which returns the empty list.
C18_MetadataFailureExplicit ==
    (fetch.pos = "done" /\ fetch.requests[1].failed) => fetch.items # <<>>

\* C20: the paginated fetch requests the next page exactly while the last
\* page returned as many items as were requested and fewer items than the
\* cap have been accumulated; the list never holds more items than the cap.
C20_PaginatedFetch ==
    fetch.fetcher # "none" =>
       /\ Len(fetch.items) <= Cap(fetch.fetcher)
       /\ \A i \in DOMAIN fetch.requests :
             /\ i < Len(fetch.requests) => GoesOn(fetch.requests[i])
             /\ i = Len(fetch.requests) =>
                   (fetch.pos = "loop" <=> GoesOn(fetch.requests[i]))

\* A paginated fetch ended at the cap after several pages, the last one
\* asked for with fewer items than the page size.
C20_Witness ==
    /\ fetch.fetcher \in Paginated
    /\ fetch.pos = "done"
    /\ Len(fetch.requests) >= 2
    /\ Len(fetch.items) = Cap(fetch.fetcher)
    /\ fetch.requests[Len(fetch.requests)].per_page < fetch.page_size
    /\ fetch.total > Cap(fetch.fetcher)

-----------------------------------------------------------------------------
(* Claims about the OpenSearch query *)

\* The number of places of the returned list that hold the labelled hit.
Places(labelled_hit) ==
    Cardinality({i \in DOMAIN search.hits : search.hits[i] = labelled_hit})

IsPrefixOfListing(items) == \A k \in DOMAIN items : items[k] = k

\* While every page was asked for with the page size itself, the list is a
\* prefix of the listing.
C29_FullPagesOnly ==
    (\A i \in DOMAIN fetch.requests : fetch.requests[i].per_page = fetch.page_size)
       => IsPrefixOfListing(fetch.items)

\* C29: the list accumulated by the paginated fetch holds no remote item
\* twice and is a contiguous prefix of the remote listing, for every
\* combination of cap and page size.
C29_ContiguousPrefix ==
    fetch.fetcher \in Paginated => IsPrefixOfListing(fetch.items)

-----------------------------------------------------------------------------
(* Claims about the pattern-based extractor *)

\* The places find_block_end reads: <<line, column>>, from the match line on.
Scanned ==
    {p \in (1..(MaxBraceChars + 1)) \X (1..MaxBraceChars) :
        /\ block.start_idx < p[1]
        /\ p[1] <= Len(block.lines)
        /\ p[2] <= Len(block.lines[p[1]])}

NotAfter(p, q) == p[1] < q[1] \/ (p[1] = q[1] /\ p[2] <= q[2])

\* The brace depth once the character at place p has been counted.
DepthAt(p) ==
    Cardinality({q \in Scanned : NotAfter(q, p) /\ block.lines[q[1]][q[2]] = "{"})
      - Cardinality({q \in Scanned : NotAfter(q, p) /\ block.lines[q[1]][q[2]] = "}"})

\* The places where the depth is back at zero after having been positive.
Closed ==
    {p \in Scanned :
        /\ DepthAt(p) = 0
        /\ \E q \in Scanned : NotAfter(q, p) /\ DepthAt(q) > 0}

\* C23: find_block_end returns the 1-based number of the first line on which
\* the depth, counted from the match line, is back at zero after having been
\* positive; if that never happens, the number of lines.
C23_BlockEnd ==
    block.pos = "done" =>
       block.end_line =
          IF Closed = {} THEN Len(block.lines)
          ELSE CHOOSE l \in {p[1] : p \in Closed} : \A p \in Closed : l <= p[1]

\* A '}' comes before the first '{' and the block closes on a later line
\* than the match line.
C23_Witness ==
    /\ block.pos = "done"
    /\ \E p \in Scanned, q \in Scanned :
          NotAfter(p, q) /\ DepthAt(p) < 0 /\ DepthAt(q) > 0
    /\ Closed # {}
    /\ block.end_line > block.start_idx + 1

\* The depth was positive and never came back to zero.
C23_WitnessUnclosed ==
    /\ block.pos = "done"
    /\ \E p \in Scanned : DepthAt(p) > 0
    /\ Closed = {}
    /\ block.end_line = Len(block.lines)

\* The records that start at line i.
StartingAt(i) == {k \in DOMAIN js.extracted : js.extracted[k].start_line = i}

\* A comment line: a line comment, the opening of a block comment, or a
\* line of its body.
CommentLine(line) == line # <<>> /\ line[1] \in {"//", "/*", "*"}

C24_AtMostOne ==
    js.pos = "done" =>
       \A i \in DOMAIN SplitLines(js.content) : Cardinality(StartingAt(i)) <= 1

\* No record starts at a line the loop skips.
C24_NoneForSkipped ==
    js.pos = "done" =>
       \A i \in DOMAIN SplitLines(js.content) :
          Skipped(SplitLines(js.content)[i]) => StartingAt(i) = {}

C24_NoneForComment ==
    js.pos = "done" =>
       \A i \in DOMAIN SplitLines(js.content) :
          CommentLine(SplitLines(js.content)[i]) => StartingAt(i) = {}

\* C24: for every line of the file the extractor emits at most one record
\* starting at that line, and none for a blank line or a comment line.
C24_OneRecordPerLine ==
    js.pos = "done" =>
       \A i \in DOMAIN SplitLines(js.content) :
          /\ Cardinality(StartingAt(i)) <= 1
          /\ (SplitLines(js.content)[i] = <<>> \/ CommentLine(SplitLines(js.content)[i]))
                => StartingAt(i) = {}

\* The number of lines of a text: a final newline ends the last line, it
\* does not start another one.
ContentLines(content) ==
    IF content = <<>> THEN 0
    ELSE IF content[Len(content)] = Newline THEN Len(SplitLines(content)) - 1
    ELSE Len(SplitLines(content))

\* Every span lies inside the pieces of split('\n').
C25_SpanInsidePieces ==
    js.pos = "done" =>
       \A k \in DOMAIN js.extracted :
          /\ 1 <= js.extracted[k].start_line
          /\ js.extracted[k].start_line <= js.extracted[k].end_line
          /\ js.extracted[k].end_line <= Len(SplitLines(js.content))

\* C25: every record of the pattern-based extractor has a span inside the
\* file: 1 <= start_line <= end_line <= number of lines of the content.
C25_SpanInsideFile ==
    js.pos = "done" =>
       \A k \in DOMAIN js.extracted :
          /\ 1 <= js.extracted[k].start_line
          /\ js.extracted[k].start_line <= js.extracted[k].end_line
          /\ js.extracted[k].end_line <= ContentLines(js.content)

-----------------------------------------------------------------------------
(* Claims about the persisted index *)

\* A query right after build_faiss_index does search the vectors of the
\* embeddings file.
C28_AfterBuild ==
    [][(ret.op = "build" /\ ret.error = "" /\ ret'.op = "query")
          => indexFile'.vectors = embFile'.vectors]_vars

\* C28: in every sequence of generate, build and query operations the index
\* a query searches has as many vectors as the current embeddings file.
C28_IndexFollowsEmbeddings ==
    Searched => Len(indexFile.vectors) = Len(embFile.vectors)

-----------------------------------------------------------------------------
(* Further claims about the Lambda handler *)

\* An indexing run has ended: a process request returned its result.
RunEnded == response.action = "process" /\ response.statusCode = 200

\* Every symbol's file id is the id of exactly one row of files.
C22_FileReference ==
    RunEnded =>
       \A k \in DOMAIN tmpDb.symbols :
          Cardinality({i \in DOMAIN tmpDb.files :
                          tmpDb.files[i].file_id = tmpDb.symbols[k].file_id}) = 1

\* C22: after any indexing run, also one whose commit fetch returned nothing
\* or whose HEAD hash could not be read, each symbol's file id is a row of
\* files and its commit hash is a row of commits.
C22_SymbolsReferenceRows ==
    RunEnded =>
       \A k \in DOMAIN tmpDb.symbols :
          /\ Cardinality({i \in DOMAIN tmpDb.files :
                             tmpDb.files[i].file_id = tmpDb.symbols[k].file_id}) = 1
          /\ HasCommit(tmpDb.commits, tmpDb.symbols[k].commit_sha)

\* The step is a process request for u that returned its result.
ProcessedStep(u) ==
    /\ processed' = processed + 1
    /\ response'.action = "process"
    /\ response'.statusCode = 200
    /\ response'.repo_url = u

\* The cache write replaces the entry of the processed URL by what
\* process_repository returned and touches no other entry.
C21_FullReplacement ==
    [][\A u \in Urls :
          IF ProcessedStep(u)
          THEN REPO_CACHE'[u] = process_repository(u, github, tmpDb, response'.env).result
          ELSE REPO_CACHE'[u] = REPO_CACHE[u]]_vars

\* C21: after any sequence of process requests the entry of a URL is the
\* complete result of the most recently finished successful process of that
\* URL, what that run found and fetched and nothing of another run, and the
\* entries of all other URLs are unchanged.
C21_LastWriteWins ==
    [][\A u \in Urls :
          IF ProcessedStep(u)
          THEN REPO_CACHE'[u] = process_repository(u, github, EmptyDb, response'.env).result
          ELSE REPO_CACHE'[u] = REPO_CACHE[u]]_vars

\* The step is a process request that failed: no repo_url, a URL
\* extract_repo_info rejects, a clone that failed or timed out.
FailedProcessStep ==
    /\ response' # response
    /\ response'.action = "process"
    /\ response'.statusCode # 200

MetException(r) ==
    \/ r.action = "unparsable"
    \/ r.action = "process" /\ r.repo_url # "" /\ ExtractRaises(r.repo_url)
    \/ r.action = "process" /\ r.env.git = "clone_failed"
    \/ r.action = "ask" /\ r.completion \in {"no_text", "transport_error"}

ErrorBodies == {"ValueError", "Exception", "KeyError", "ClientError", "JSONDecodeError",
                "AttributeError"}

-----------------------------------------------------------------------------
(* Claims about the context of a question *)

Built == ctx.pos = "done"

PartRank(part) ==
    CASE part = "info" -> 1
      [] part = "statistics" -> 2
      [] part = "structure" -> 3
      [] part = "commits" -> 4
      [] part = "prs" -> 5

\* The lines of a part of the context that are not its heading, in order.
BodyLines(part) ==
    SelectSeq(ctx.context, LAMBDA l : l.part = part /\ ~l.heading)

\* The label under which a field of the details would be printed.
InfoLabel(field) ==
    CASE field = "description" -> "Description: "
      [] field = "language" -> "Language: "
      [] field = "stars" -> "Stars: "
      [] field = "forks" -> "Forks: "

\* The parts come in the order info, statistics, structure, commits, pull
\* requests.
PartsInOrder ==
    \A i, j \in DOMAIN ctx.context :
       i < j => PartRank(ctx.context[i].part) <= PartRank(ctx.context[j].part)

\* At most ContextFiles files, each with at most ContextNames names per kind;
\* the first ContextCommits commits with the message cut to MessageChars; the
\* first ContextPrs pull requests with the title cut to MessageChars.
WithinBounds ==
    LET shown == SelectSeq(BodyLines("structure"), LAMBDA l : l.label = "file:")
        listed == SelectSeq(BodyLines("structure"), LAMBDA l : l.label # "file:")
        shownCommits == BodyLines("commits")
        shownPrs == BodyLines("prs")
    IN /\ Len(shown) <= ContextFiles
       /\ \A i \in DOMAIN listed : Len(listed[i].args) <= ContextNames
       /\ Len(shownCommits) = Min(Len(ctx.repo_data.commits), ContextCommits)
       /\ \A i \in DOMAIN shownCommits :
             /\ Len(shownCommits[i].args[1]) <= MessageChars
             /\ shownCommits[i].args[1] = Prefix(ctx.repo_data.commits[i].message, MessageChars)
       /\ Len(shownPrs) = Min(Len(ctx.repo_data.prs), ContextPrs)
       /\ \A i \in DOMAIN shownPrs :
             /\ shownPrs[i].args[1] = ctx.repo_data.prs[i].number
             /\ Len(shownPrs[i].args[2]) <= MessageChars
             /\ shownPrs[i].args[2] = Prefix(ctx.repo_data.prs[i].title, MessageChars)

\* The info part names the repository and every field of the details.
InfoComplete ==
    /\ \E i \in DOMAIN ctx.context :
          ctx.context[i].part = "info" /\ ctx.context[i].args = <<ctx.repo_data.repo>>
    /\ ctx.repo_data.details # NoDetails =>
          \A field \in {"description", "language", "stars", "forks"} :
             \E i \in DOMAIN ctx.context :
                ctx.context[i].part = "info" /\ ctx.context[i].label = InfoLabel(field)

\* C26 (what holds of it): the context build_context returns has its parts in
\* the order info, statistics, structure, commits, pull requests; it lists at
\* most 10 files with at most 10 names per kind, the first 5 commits with the
\* message cut to 80 characters and the first 5 pull requests with the title
\* cut to 80 characters; the info part names the repository and, when there is
\* one, the description.
C26_OrderAndBounds ==
    Built =>
       /\ PartsInOrder
       /\ WithinBounds
       /\ \E i \in DOMAIN ctx.context :
             ctx.context[i].part = "info" /\ ctx.context[i].args = <<ctx.repo_data.repo>>
       /\ ctx.repo_data.details # NoDetails =>
             \E i \in DOMAIN ctx.context :
                /\ ctx.context[i].part = "info"
                /\ ctx.context[i].args = <<ctx.repo_data.details.description>>

\* C26: build_context serialises in a fixed order and within fixed bounds:
\* the repository, its description, language, stars and forks first, the
\* statistics second, the files third (at most 10, at most 10 names per kind),
\* the commits fourth (at most 5, message cut to 80 characters), the pull
\* requests fifth (at most 5, title cut to 80 characters).
C26_SerialisedInOrder ==
    Built => PartsInOrder /\ WithinBounds /\ InfoComplete

\* A context built from a snapshot that has details and exceeds every limit:
\* more than 10 files, more than 10 names in a file, more than 5 commits and
\* pull requests, texts of more than 80 characters.
C26_Witness ==
    /\ Built
    /\ ctx.repo_data.details # NoDetails
    /\ Len(FirstPaths(ctx.repo_data.symbols)) > ContextFiles
    /\ Len(NamesOf(ctx.repo_data.symbols, 1, "function")) > ContextNames
    /\ Len(ctx.repo_data.commits) > ContextCommits
    /\ Len(ctx.repo_data.prs) > ContextPrs
    /\ Len(ctx.repo_data.commits[1].message) > MessageChars
    /\ Len(ctx.repo_data.prs[1].title) > MessageChars

\* A context built from a snapshot with details that prints no language.
C26_LanguageMissing ==
    ~(/\ Built
      /\ ctx.repo_data.details # NoDetails
      /\ \A i \in DOMAIN ctx.context : ctx.context[i].label # InfoLabel("language"))

=============================================================================
